---- MODULE Spec2Model ----
(***************************************************************************)
(* Verification model of the formatter IR of oxc_formatter:               *)
(*   - Document::propagate_expand and the FormatElements queries           *)
(*     (will_break, start_tag, end_tag) of format_element/document.rs      *)
(*   - VecBuffer of buffer.rs                                              *)
(*                                                                         *)
(* A document lives in a heap of slices.  Slice 0 is Document.elements,    *)
(* slices 1..NumInterned are the contents of the Interned sub-documents    *)
(* (the slice id stands for the Rc pointer, which is how Interned compares *)
(* and hashes), and the remaining slices are the variants of the           *)
(* BestFitting elements.  A group's mode is a Cell inside the StartGroup   *)
(* tag, so it is stored in the element and updated in place in the heap.   *)
(***************************************************************************)
EXTENDS Integers, Sequences, FiniteSets, TLC

VARIABLES
    slices,     \* the heap of slices of the document under work
    slices0,    \* the heap as the document was built (before any pass)
    prev,       \* the heap before the latest propagate_expand call
    runs,       \* number of propagate_expand calls made on the document
    checked,    \* checked_interned at the end of the latest call
    walked,     \* how often the latest call walked each Interned's content
    query,      \* the latest FormatElements query and its result
    elements,   \* VecBuffer.elements
    snapshots,  \* BufferSnapshots handed out and not yet restored
    last,       \* the latest VecBuffer operation and its outcome
    pool,       \* the Interned and BestFitting contents a RemoveSoftLinesBuffer sees
    interned_cache,             \* RemoveSoftLinesBuffer.interned_cache
    conditional_content_stack,  \* RemoveSoftLinesBuffer.conditional_content_stack
    written,    \* the elements written to the RemoveSoftLinesBuffer so far
    cleanings,  \* the Interned whose content clean_interned went through, in order
    recording,  \* the Recording on the VecBuffer: whether it runs, and its start
    stamps,     \* for each element of the VecBuffer, whether the Recording saw its write
    recorded,   \* what Recording::stop returned
    option,     \* the latest call on the options and what it returned
    program,    \* the Program formatted last, the options it was formatted with, and
                \* whether the formatting returned
    printer,    \* the formatting session: what is to be written, the print width,
                \* how far the session is, and what the Printer did
    state       \* the FormatState: its group id builder and the ids it has issued

docVars == <<slices, slices0, prev, runs, checked, walked>>
bufVars == <<elements, snapshots, last>>
softVars == <<pool, interned_cache, conditional_content_stack, written, cleanings>>
\* what the document passes, the queries and the plain VecBuffer leave alone
recVars == <<recording, stamps, recorded>>
\* what only the specification it belongs to changes
idleVars == <<option, program, printer, state>>
restVars == <<softVars, recVars, idleVars>>
vars == <<slices, slices0, prev, runs, checked, walked, query, elements, snapshots, last,
          pool, interned_cache, conditional_content_stack, written, cleanings,
          recording, stamps, recorded, option, program, printer, state>>

(***************************************************************************)
(* Bounds of the model                                                     *)
(***************************************************************************)
NumInterned == 1        \* Interned sub-documents of a document
NumBestFitting == 1     \* BestFitting elements of a document
NumVariants == 2        \* variants of a BestFitting (best_fitting! wants >= 2)
MaxLen == 6             \* elements of Document.elements
MaxInternedLen == 3     \* elements of an Interned sub-document
MaxVariantLen == 1      \* elements of a BestFitting variant
MaxLeafLen == 4         \* elements of a document that has no sub-document
MaxRuns == 2            \* propagate_expand calls on one document
MaxQueryLen == 4        \* elements of a slice that is queried
MaxQueryInternedLen == 2 \* elements of an Interned in a queried slice
MaxQueryLeafLen == 3    \* elements of a queried slice without sub-documents
MaxBufferLen == 3       \* elements written to a VecBuffer
MaxSnapshots == 2       \* snapshots of a VecBuffer not yet restored
NumSoftInterned == 2    \* Interned a RemoveSoftLinesBuffer is given
NumSoftBestFitting == 2 \* BestFitting a RemoveSoftLinesBuffer is given
MaxSoftLen == 3         \* elements of an Interned or variant given to it
MaxSoftWork == 4        \* elements given to it, those of the Interned and variants counted
MaxWidthInput == 400    \* greatest u16 given to LineWidth::try_from

(***************************************************************************)
(* FormatElement                                                           *)
(***************************************************************************)
NoText == <<>>

Element(k, tag, mode, text, id) ==
    [k |-> k, tag |-> tag, mode |-> mode, text |-> text, id |-> id]

StaticText(text) == Element("StaticText", "-", "-", text, 0)
DynamicText(text) == Element("DynamicText", "-", "-", text, 0)
LocatedTokenText(text) == Element("LocatedTokenText", "-", "-", text, 0)
Space == Element("Space", "-", "-", NoText, 0)
Line(mode) == Element("Line", "-", mode, NoText, 0)
ExpandParent == Element("ExpandParent", "-", "-", NoText, 0)
Interned(id) == Element("Interned", "-", "-", NoText, id)
BestFitting(id) == Element("BestFitting", "-", "-", NoText, id)
Tag(tag) == Element("Tag", tag, "-", NoText, 0)
StartGroup(mode) == Element("Tag", "StartGroup", mode, NoText, 0)
EndGroup == Tag("EndGroup")

LineModes == {"SoftOrSpace", "Soft", "Hard", "Empty", "Literal"}
GroupModes == {"Flat", "Expand", "Propagated"}

\* the slices holding the variants of BestFitting b, most flat first
Variants(b) ==
    [v \in 1..NumVariants |-> NumInterned + (b - 1) * NumVariants + v]

SliceIds == 0..(NumInterned + NumBestFitting * NumVariants)
InternedIds == 1..NumInterned

\* str::contains(char)
Contains(text, c) == \E n \in DOMAIN text : text[n] = c

Last(s) == s[Len(s)]
Front(s) == SubSeq(s, 1, Len(s) - 1)

(***************************************************************************)
(* Document::propagate_expand  (format_element/document.rs)                *)
(*                                                                         *)
(* The state threaded through the walk:                                    *)
(*   sl         the heap (group modes are changed in place)                *)
(*   enclosing  the stack of Enclosing::Group(&group) / BestFitting        *)
(*   checked    checked_interned                                           *)
(*   walked     calls of propagate_expands on each Interned's content      *)
(*   expands    the local `expands` of the running propagate_expands call  *)
(*   ee         `element_expands` of the element just matched              *)
(*   anyv       whether a variant of the BestFitting just left returned    *)
(*              true (the code drops these return values)                  *)
(***************************************************************************)
\* GroupMode::is_flat
is_flat(mode) == mode = "Flat"

\* tag::Group::propagate_expand: a flat group becomes Propagated
GroupPropagateExpand(mode) == IF mode = "Flat" THEN "Propagated" ELSE mode

EnclosingGroup(s, i) == [k |-> "Group", s |-> s, i |-> i]
EnclosingBestFitting == [k |-> "BestFitting", s |-> 0, i |-> 0]

\* a bug that looks for the nearest group below the BestFitting markers
expand_parent_skipping(st) ==
    LET groups == {n \in DOMAIN st.enclosing : st.enclosing[n].k = "Group"}
    IN  IF groups = {} THEN st
        ELSE LET n == CHOOSE m \in groups : \A o \in groups : o <= m
                 g == st.enclosing[n]
             IN  [st EXCEPT !.sl[g.s][g.i].mode = GroupPropagateExpand(@)]

\* fn expand_parent(enclosing)
expand_parent(st) ==
    IF Len(st.enclosing) > 0 /\ Last(st.enclosing).k = "Group"
    THEN LET g == Last(st.enclosing)
         IN  [st EXCEPT !.sl[g.s][g.i].mode = GroupPropagateExpand(@)]
    ELSE st

\* a bug that leaves Line(Empty) and text out of the expanding elements
LeafExpands_HardOnly(element) ==
    element.k = "ExpandParent" \/ (element.k = "Line" /\ element.mode = "Hard")

\* the match arms for elements that are no StartGroup, EndGroup, Interned
\* or BestFitting
LeafExpands(element) ==
    CASE element.k \in {"StaticText", "DynamicText", "LocatedTokenText"} ->
            Contains(element.text, "\n")
      [] element.k = "ExpandParent" -> TRUE
      [] element.k = "Line" -> element.mode \in {"Hard", "Empty"}
      [] OTHER -> FALSE

\* a bug that decides on entering a group whether it expands its parent
GroupTagArm_OnEnter(st, s, i) ==
    LET element == st.sl[s][i]
    IN  IF element.tag = "StartGroup"
        THEN LET marked == IF is_flat(element.mode) THEN st ELSE expand_parent(st)
             IN  [marked EXCEPT !.enclosing = Append(@, EnclosingGroup(s, i)),
                                !.ee = FALSE]
        ELSE [st EXCEPT !.enclosing = IF Len(@) = 0 THEN @ ELSE Front(@),
                        !.ee = FALSE]

\* the arms Tag(StartGroup(group)) and Tag(EndGroup)
GroupTagArm(st, s, i) ==
    IF st.sl[s][i].tag = "StartGroup"
    THEN [st EXCEPT !.enclosing = Append(@, EnclosingGroup(s, i)), !.ee = FALSE]
    ELSE IF Len(st.enclosing) = 0
         THEN [st EXCEPT !.ee = FALSE]
         ELSE LET top == Last(st.enclosing)
              IN  [st EXCEPT !.enclosing = Front(@),
                             !.ee = /\ top.k = "Group"
                                    /\ ~is_flat(st.sl[top.s][top.i].mode)]

\* a bug that forgets the memoized value
CachedInterned_Forgets(interned_expands) == FALSE

\* Some(interned_expands) => *interned_expands
CachedInterned(interned_expands) == interned_expands

\* a bug that lets a BestFitting expand when one of its variants does
BestFittingExpands_AnyVariant(any_variant_expands) == any_variant_expands

\* the value of the BestFitting arm: the returns of the variants are dropped
BestFittingExpands(any_variant_expands) == FALSE

\* the bug the comment of the BestFitting arm warns of: `expands = false`
ExpandsAfterBestFitting_Reset(expands) == FALSE

\* `expands` is left as it is when the walk leaves a BestFitting
ExpandsAfterBestFitting(expands) == expands

RECURSIVE propagate_expands(_, _, _)
RECURSIVE propagate_variants(_, _, _)

\* for variant in best_fitting.variants() { propagate_expands(variant, ..) }
propagate_variants(vs, v, st) ==
    IF v > Len(vs) THEN st
    ELSE LET r == propagate_expands(vs[v], 1, [st EXCEPT !.expands = FALSE])
         IN  propagate_variants(vs, v + 1, [r EXCEPT !.anyv = st.anyv \/ r.expands])

\* the arm Interned(interned)
InternedArm(st, id) ==
    IF id \in DOMAIN st.checked
    THEN [st EXCEPT !.ee = CachedInterned(st.checked[id])]
    ELSE LET r == propagate_expands(id, 1,
                      [st EXCEPT !.expands = FALSE, !.walked[id] = @ + 1])
         IN  [r EXCEPT !.checked = (id :> r.expands) @@ @,
                       !.ee = r.expands,
                       !.expands = st.expands]

\* the arm BestFitting(best_fitting)
BestFittingArm(st, id) ==
    LET pushed == [st EXCEPT !.enclosing = Append(@, EnclosingBestFitting),
                             !.anyv = FALSE]
        r == propagate_variants(Variants(id), 1, pushed)
    IN  [r EXCEPT !.enclosing = IF Len(@) = 0 THEN @ ELSE Front(@),
                  !.ee = BestFittingExpands(r.anyv),
                  !.expands = ExpandsAfterBestFitting(st.expands)]

\* fn propagate_expands(elements, enclosing, checked_interned) -> bool,
\* from element i of slice s on; the result's `expands` is the return value
propagate_expands(s, i, st) ==
    IF i > Len(st.sl[s]) THEN st
    ELSE LET element == st.sl[s][i]
             matched ==
                 CASE element.k = "Tag" /\ element.tag \in {"StartGroup", "EndGroup"} ->
                        GroupTagArm(st, s, i)
                   [] element.k = "Interned" -> InternedArm(st, element.id)
                   [] element.k = "BestFitting" -> BestFittingArm(st, element.id)
                   [] OTHER -> [st EXCEPT !.ee = LeafExpands(element)]
             after == IF matched.ee
                      THEN expand_parent([matched EXCEPT !.expands = TRUE])
                      ELSE matched
         IN  propagate_expands(s, i + 1, after)

\* Document::propagate_expand(&mut self)
DocumentPropagateExpand(sl) ==
    propagate_expands(0, 1,
        [sl |-> sl, enclosing |-> <<>>, checked |-> <<>>,
         walked |-> [id \in InternedIds |-> 0],
         expands |-> FALSE, ee |-> FALSE, anyv |-> FALSE])

(***************************************************************************)
(* The documents the pass is run on                                        *)
(***************************************************************************)
SeqsUpTo(A, n) == UNION {[1..k -> A] : k \in 0..n}

IsTag(element, tag) == element.k = "Tag" /\ element.tag = tag

\* number of open `start` tags after the first n elements of seq
TagDepth(seq, start, end, n) ==
    Cardinality({j \in 1..n : IsTag(seq[j], start)})
        - Cardinality({j \in 1..n : IsTag(seq[j], end)})

\* every `end` closes a `start` of the same slice and no `start` is left open
Balanced(seq, start, end) ==
    /\ \A n \in 1..Len(seq) : TagDepth(seq, start, end, n) >= 0
    /\ TagDepth(seq, start, end, Len(seq)) = 0

BalancedGroups(seq) == Balanced(seq, "StartGroup", "EndGroup")

\* a BestFitting is not Clone-shared: it occurs once
OneOfEach(seq) ==
    \A i, j \in DOMAIN seq : seq[i].k = "BestFitting" /\ seq[i] = seq[j] => i = j

Text_a == <<"a">>
Text_a_nl_b == <<"a", "\n", "b">>

\* every kind of element that is neither a tag nor a sub-document
AllLeaves ==
    {StaticText(Text_a), StaticText(Text_a_nl_b), ExpandParent,
     Line("Hard"), Line("Empty"), Line("Literal"), Line("Soft")}

\* the leaves of the documents that have sub-documents
StructLeaves == {ExpandParent}

InternedRefs == {Interned(id) : id \in InternedIds}
BestFittingRefs == {BestFitting(b) : b \in 1..NumBestFitting}
VariantSlices == UNION {{Variants(b)[v] : v \in 1..NumVariants} : b \in 1..NumBestFitting}
StructTags == {StartGroup("Flat"), EndGroup}

Roots ==
    {seq \in SeqsUpTo(StructLeaves \cup StructTags \cup InternedRefs \cup BestFittingRefs,
                      MaxLen) : BalancedGroups(seq) /\ OneOfEach(seq)}
\* an Interned holds Interned's of a higher id only, so none holds the first
InternedContents ==
    {seq \in SeqsUpTo(StructLeaves \cup StructTags \cup (InternedRefs \ {Interned(1)})
                          \cup BestFittingRefs,
                      MaxInternedLen) : BalancedGroups(seq) /\ OneOfEach(seq)}
VariantContents ==
    {seq \in SeqsUpTo(StructLeaves \cup StructTags \cup InternedRefs, MaxVariantLen) :
        BalancedGroups(seq)}
LeafRoots ==
    {seq \in SeqsUpTo(AllLeaves \cup {StartGroup("Flat"), StartGroup("Expand"), EndGroup},
                      MaxLeafLen) : BalancedGroups(seq)}

Heap(root, ic, vc) ==
    [s \in SliceIds |-> IF s = 0 THEN root ELSE IF s \in InternedIds THEN ic[s] ELSE vc[s]]

HasKind(seq, k) == \E j \in DOMAIN seq : seq[j].k = k

\* the BestFitting ids / Interned ids among the elements of seq
IdsOf(seq, k) == {seq[j].id : j \in {n \in DOMAIN seq : seq[n].k = k}}

\* the slices an element of slice s refers to
RefsOf(sl, s) ==
    {sl[s][j].id : j \in {n \in DOMAIN sl[s] : sl[s][n].k = "Interned"}}
    \cup UNION {{Variants(sl[s][j].id)[v] : v \in 1..NumVariants} :
                    j \in {n \in DOMAIN sl[s] : sl[s][n].k = "BestFitting"}}

RECURSIVE Reach(_, _, _)
Reach(sl, set, n) ==
    LET more == set \cup UNION {RefsOf(sl, s) : s \in set}
    IN  IF n = 0 \/ more = set THEN set ELSE Reach(sl, more, n - 1)

\* the slices of the document: those reachable from Document.elements
Reachable(sl) == Reach(sl, {0}, Cardinality(SliceIds))

\* A heap that a program can build: a BestFitting owns its variants, so
\* each is in one place only; an Rc slice cannot hold itself (the Interned's
\* are numbered so that each holds, also in the variants of its
\* BestFittings, higher ids only); and there is nothing in the heap that the
\* document does not reach.
WellFormed(sl) ==
    /\ \A b \in 1..NumBestFitting :
          Cardinality({s \in SliceIds : b \in IdsOf(sl[s], "BestFitting")}) <= 1
    /\ \A id \in InternedIds :
          /\ \A j \in IdsOf(sl[id], "Interned") : j > id
          /\ \A b \in IdsOf(sl[id], "BestFitting") : \A v \in 1..NumVariants :
                \A j \in IdsOf(sl[Variants(b)[v]], "Interned") : j > id
    /\ LET reachable == Reachable(sl)
       IN  \A s \in SliceIds : s \notin reachable => sl[s] = <<>>

\* Option<&Tag>: the tag found, named by its place, or None
NoTag == [found |-> FALSE, s |-> 0, i |-> 0, depth |-> 0]

NoQuery == [op |-> "none", kind |-> "-", breaks |-> FALSE, tag |-> NoTag]
\* the last call on the buffer: whether it returned (ok) or panicked, and for
\* a restore the snapshot it was given and the length it found
NoOp == [op |-> "none", ok |-> TRUE, position |-> 0, taken |-> <<>>, clean |-> TRUE,
         len |-> 0, newest |-> TRUE, before |-> <<>>]

\* RemoveSoftLinesBuffer::new, with nothing to see
InitSoft(p) ==
    /\ pool = p
    /\ interned_cache = <<>>
    /\ conditional_content_stack = <<>>
    /\ written = <<>>
    /\ cleanings = <<>>

NoRecording == [active |-> FALSE, stopped |-> FALSE, start |-> 0]

\* no Recording yet
InitRecording ==
    /\ recording = NoRecording
    /\ stamps = <<>>
    /\ recorded = <<>>

NoOption == [op |-> "none", input |-> 0, ok |-> TRUE, value |-> 0, print_width |-> 0]

NoProgram == [op |-> "none", body |-> <<>>, semicolons |-> "Always",
              quote_style |-> "Double", ok |-> TRUE]

NoPrinter ==
    [op |-> "none", arguments |-> <<>>, filter |-> FALSE, width |-> 0, out |-> <<>>,
     groups |-> <<>>, picks |-> <<>>, failed |-> FALSE]

\* FormatState::new(context): group_id_builder is UniqueGroupIdBuilder::default(),
\* whose first id is 1; issued lists the ids handed out, oldest first
NewFormatState == [next_id |-> 1, issued |-> <<>>]

InitIdle ==
    option = NoOption /\ program = NoProgram /\ printer = NoPrinter /\ state = NewFormatState

InitRest == InitSoft(<<>>) /\ InitRecording /\ InitIdle

InitOther ==
    /\ InitRest
    /\ query = NoQuery
    /\ elements = <<>>
    /\ snapshots = <<>>
    /\ last = NoOp

InitDoc(sl) ==
    /\ slices = sl
    /\ slices0 = sl
    /\ prev = sl
    /\ runs = 0
    /\ checked = <<>>
    /\ walked = [id \in InternedIds |-> 0]

EmptyOnly == {<<>>}

InternedContentsNoBestFitting == {c \in InternedContents : ~HasKind(c, "BestFitting")}

VariantOwner ==
    [s \in VariantSlices |->
        CHOOSE b \in 1..NumBestFitting : \E v \in 1..NumVariants : Variants(b)[v] = s]

\* The documents with sub-documents.  The variants of the BestFittings of
\* Document.elements are chosen first (vr), then the Interned contents,
\* then the variants of the BestFittings found in those (vc).
InitPropagate ==
    /\ \/ \E root \in Roots :
          \E vr \in [VariantSlices ->
                        IF HasKind(root, "BestFitting") THEN VariantContents ELSE EmptyOnly] :
          \E ic \in [InternedIds ->
                        IF HasKind(root, "Interned")
                           \/ \E s \in VariantSlices : HasKind(vr[s], "Interned")
                        THEN IF NumBestFitting = 1 /\ HasKind(root, "BestFitting")
                             THEN InternedContentsNoBestFitting ELSE InternedContents
                        ELSE EmptyOnly] :
          \E vc \in [VariantSlices ->
                        IF \E id \in InternedIds : HasKind(ic[id], "BestFitting")
                        THEN VariantContents ELSE EmptyOnly] :
             LET rootBF == IdsOf(root, "BestFitting")
                 sl == Heap(root, ic, [s \in VariantSlices |->
                                          IF VariantOwner[s] \in rootBF THEN vr[s] ELSE vc[s]])
             IN  /\ \A s \in VariantSlices :
                       /\ VariantOwner[s] \notin rootBF => vr[s] = <<>>
                       /\ VariantOwner[s] \in rootBF => vc[s] = <<>>
                 /\ WellFormed(sl)
                 /\ InitDoc(sl)
       \/ \E root \in LeafRoots :
             InitDoc(Heap(root, [id \in InternedIds |-> <<>>],
                          [s \in VariantSlices |-> <<>>]))
    /\ InitOther

\* document.propagate_expand()
PropagateExpand ==
    /\ runs < MaxRuns
    /\ LET r == DocumentPropagateExpand(slices)
       IN  /\ slices' = r.sl
           /\ checked' = r.checked
           /\ walked' = r.walked
    /\ prev' = slices
    /\ runs' = runs + 1
    /\ UNCHANGED <<slices0, query, elements, snapshots, last, restVars>>

NextPropagate == PropagateExpand

SpecPropagate == InitPropagate /\ [][NextPropagate]_vars

(***************************************************************************)
(* What the claims about propagate_expand speak of                         *)
(***************************************************************************)
GroupDepth(seq, n) == TagDepth(seq, "StartGroup", "EndGroup", n)

\* the groups of a heap, each named by the place of its StartGroup
GroupsOf(sl) ==
    UNION {{<<s, i>> : i \in {n \in DOMAIN sl[s] : IsTag(sl[s][n], "StartGroup")}} :
              s \in SliceIds}

\* the place of the EndGroup of the group that starts at i
GroupEnd(seq, i) ==
    LET closing == {j \in (i + 1)..Len(seq) : GroupDepth(seq, j) = GroupDepth(seq, i) - 1}
    IN  CHOOSE j \in closing : \A m \in closing : j <= m

\* the places between the StartGroup at i and its EndGroup
Inside(seq, i) == (i + 1)..(GroupEnd(seq, i) - 1)

\* the group at i is the innermost group of its slice around place j
DirectlyIn(seq, i, j) ==
    /\ j \in Inside(seq, i)
    /\ seq[j].k # "Tag"
    /\ GroupDepth(seq, j) = GroupDepth(seq, i)

\* the elements the specification calls expanding
IsExpandingElement(element) ==
    \/ element = Line("Hard")
    \/ element = Line("Empty")
    \/ element = ExpandParent
    \/ /\ element.k \in {"StaticText", "DynamicText", "LocatedTokenText"}
       /\ \E n \in 1..Len(element.text) : element.text[n] = "\n"

\* the places `range` of slice s hold an expanding element or a group that
\* is not flat, looking into Interned sub-documents but not into BestFittings
RECURSIVE HoldsExpanding(_, _, _)
HoldsExpanding(sl, s, range) ==
    \E j \in range :
        \/ IsExpandingElement(sl[s][j])
        \/ IsTag(sl[s][j], "StartGroup") /\ sl[s][j].mode # "Flat"
        \/ /\ sl[s][j].k = "Interned"
           /\ HoldsExpanding(sl, sl[s][j].id, DOMAIN sl[sl[s][j].id])

ModeOf(sl, g) == sl[g[1]][g[2]].mode

\* C1: after propagate_expand every group whose content holds an expanding
\* element or a group that is not flat, at any depth of groups and Interned
\* sub-documents but not behind a BestFitting, is not flat; it is Propagated
\* when it was built flat.
Thm_C1_ExpandingContentPropagates ==
    runs >= 1 =>
        \A g \in GroupsOf(slices) :
            HoldsExpanding(slices, g[1], Inside(slices[g[1]], g[2])) =>
                /\ ModeOf(slices, g) # "Flat"
                /\ ModeOf(slices0, g) = "Flat" => ModeOf(slices, g) = "Propagated"

\* a flat group around a flat group around an Interned whose content
\* expands: both groups end up Propagated
Wit_C1_NestedThroughInterned ==
    /\ runs >= 1
    /\ \E g \in GroupsOf(slices) : \E i \in Inside(slices[g[1]], g[2]) :
          /\ IsTag(slices[g[1]][i], "StartGroup")
          /\ ModeOf(slices0, g) = "Flat" /\ ModeOf(slices0, <<g[1], i>>) = "Flat"
          /\ ModeOf(slices, g) = "Propagated" /\ ModeOf(slices, <<g[1], i>>) = "Propagated"
          /\ \A j \in Inside(slices[g[1]], g[2]) : ~IsExpandingElement(slices[g[1]][j])
          /\ \E j \in Inside(slices[g[1]], i) :
                /\ slices[g[1]][j].k = "Interned"
                /\ HoldsExpanding(slices0, slices[g[1]][j].id,
                                  DOMAIN slices0[slices[g[1]][j].id])

\* C2: a BestFitting is a boundary: a group built flat whose content holds
\* nothing expanding outside the BestFittings stays flat, whatever the
\* variants of those BestFittings hold.
Thm_C2_BestFittingIsBoundary ==
    runs >= 1 =>
        \A g \in GroupsOf(slices0) :
            /\ ModeOf(slices0, g) = "Flat"
            /\ ~HoldsExpanding(slices0, g[1], Inside(slices0[g[1]], g[2]))
            => ModeOf(slices, g) = "Flat"

\* a group that stays flat around a BestFitting one of whose variants holds
\* an Interned with expanding content
Wit_C2_ExpandingVariantInFlatGroup ==
    /\ runs >= 1
    /\ \E g \in GroupsOf(slices) : \E j \in Inside(slices[g[1]], g[2]) :
          /\ ModeOf(slices, g) = "Flat"
          /\ slices[g[1]][j].k = "BestFitting"
          /\ \E v \in 1..NumVariants :
                LET variant == slices[Variants(slices[g[1]][j].id)[v]]
                IN  /\ HasKind(variant, "Interned")
                    /\ HoldsExpanding(slices, Variants(slices[g[1]][j].id)[v],
                                      DOMAIN variant)

\* an ExpandParent that is in a variant and in no group of the variant
DirectExpandParent(variant) ==
    \E n \in DOMAIN variant : variant[n] = ExpandParent /\ GroupDepth(variant, n) = 0

\* C3 as stated: an ExpandParent directly inside a variant of a BestFitting
\* forces the group around the BestFitting to expanded.
Orig_C3_ExpandParentInVariantExpandsOuter ==
    runs >= 1 =>
        \A g \in GroupsOf(slices) : \A j \in Inside(slices[g[1]], g[2]) :
            /\ DirectlyIn(slices[g[1]], g[2], j)
            /\ slices[g[1]][j].k = "BestFitting"
            /\ \E v \in 1..NumVariants :
                  DirectExpandParent(slices[Variants(slices[g[1]][j].id)[v]])
            => ModeOf(slices, g) # "Flat"

\* the heap with every ExpandParent that is directly in a variant replaced
\* by an element that does nothing
WithoutVariantExpandParents(sl) ==
    [s \in SliceIds |->
        IF s \in VariantSlices
        THEN [n \in DOMAIN sl[s] |->
                 IF sl[s][n] = ExpandParent /\ GroupDepth(sl[s], n) = 0
                 THEN Space ELSE sl[s][n]]
        ELSE sl[s]]

\* C3 as amended: an expanding element marks the innermost enclosing group
\* when the innermost enclosing context is that group, and marks nothing
\* when it is a BestFitting: the ExpandParents directly inside the variants
\* of the BestFittings change the mode of no group.
Thm_C3_InnermostContextDecides ==
    runs = 1 =>
        /\ \A g \in GroupsOf(slices) : \A j \in Inside(slices[g[1]], g[2]) :
              /\ DirectlyIn(slices[g[1]], g[2], j)
              /\ \/ IsExpandingElement(slices[g[1]][j])
                 \/ /\ slices[g[1]][j].k = "Interned"
                    /\ \E n \in DOMAIN slices[slices[g[1]][j].id] :
                          /\ IsExpandingElement(slices[slices[g[1]][j].id][n])
                          /\ GroupDepth(slices[slices[g[1]][j].id], n) = 0
              => ModeOf(slices, g) # "Flat"
        /\ WithoutVariantExpandParents(slices)
              = DocumentPropagateExpand(WithoutVariantExpandParents(slices0)).sl

\* a group that stays flat although a variant of its BestFitting holds an
\* ExpandParent, next to a group that its own ExpandParent marks
Wit_C3_VariantExpandParentAndMarkedGroup ==
    /\ runs = 1
    /\ \E g \in GroupsOf(slices) : \E j \in Inside(slices[g[1]], g[2]) :
          /\ DirectlyIn(slices[g[1]], g[2], j)
          /\ slices[g[1]][j].k = "BestFitting"
          /\ \E v \in 1..NumVariants :
                DirectExpandParent(slices[Variants(slices[g[1]][j].id)[v]])
          /\ ModeOf(slices, g) = "Flat"
    /\ \E g \in GroupsOf(slices) : \E j \in Inside(slices[g[1]], g[2]) :
          /\ DirectlyIn(slices[g[1]], g[2], j)
          /\ slices[g[1]][j] = ExpandParent
          /\ ModeOf(slices0, g) = "Flat"
          /\ ModeOf(slices, g) = "Propagated"

\* C4: propagate_expand is idempotent: the second call changes no group
\* mode and no element.
Thm_C4_Idempotent == runs = 2 => slices = prev

\* a second call on a document in which the first call marked a group that
\* lies in a group
Wit_C4_SecondRunAfterMarking ==
    /\ runs = 2
    /\ \E g \in GroupsOf(slices) : \E i \in Inside(slices[g[1]], g[2]) :
          /\ IsTag(slices[g[1]][i], "StartGroup")
          /\ ModeOf(slices0, <<g[1], i>>) = "Flat"
          /\ ModeOf(slices, <<g[1], i>>) = "Propagated"

\* the places of slice s that hold Interned(id) directly in the group at i
DirectRefs(sl, g, id) ==
    {j \in Inside(sl[g[1]], g[2]) :
        DirectlyIn(sl[g[1]], g[2], j) /\ sl[g[1]][j] = Interned(id)}

\* C5: the content of an Interned is walked once however often it is
\* referenced; the memoized result is true whenever the content holds an
\* expanding element outside the BestFittings, wherever the BestFittings
\* of the content are; and every group that holds a reference to such an
\* Interned is marked.
Thm_C5_InternedMemoized ==
    runs >= 1 =>
        \A id \in InternedIds :
            /\ walked[id] <= 1
            /\ id \in Reachable(slices0) =>
                  /\ walked[id] = 1
                  /\ id \in DOMAIN checked
                  /\ HoldsExpanding(slices0, id, DOMAIN slices0[id]) => checked[id]
            /\ \A g \in GroupsOf(slices) :
                  /\ DirectRefs(slices, g, id) # {}
                  /\ HoldsExpanding(slices0, id, DOMAIN slices0[id])
                  => ModeOf(slices, g) # "Flat"

\* the Interned [.., ExpandParent, .., BestFitting, ..] referenced from two
\* groups built flat, which are both marked
Wit_C5_SharedByTwoGroups ==
    /\ runs >= 1
    /\ \E id \in InternedIds :
          /\ \E m, n \in DOMAIN slices[id] :
                m < n /\ slices[id][m] = ExpandParent /\ slices[id][n].k = "BestFitting"
          /\ \E g, h \in GroupsOf(slices) :
                /\ g # h
                /\ DirectRefs(slices, g, id) # {} /\ DirectRefs(slices, h, id) # {}
                /\ ModeOf(slices0, g) = "Flat" /\ ModeOf(slices0, h) = "Flat"
                /\ ModeOf(slices, g) = "Propagated" /\ ModeOf(slices, h) = "Propagated"

\* seq with every Interned replaced by a copy of its content
RECURSIVE InlineSeq(_, _)
InlineSeq(sl, seq) ==
    IF seq = <<>> THEN <<>>
    ELSE (IF Head(seq).k = "Interned"
          THEN InlineSeq(sl, sl[Head(seq).id]) ELSE <<Head(seq)>>)
         \o InlineSeq(sl, Tail(seq))

\* the document without Interned sharing.  The copies of a BestFitting keep
\* its id, so they read the same variant slices.
InlineHeap(sl) ==
    [s \in SliceIds |-> IF s \in InternedIds THEN <<>> ELSE InlineSeq(sl, sl[s])]

\* C6: the group modes do not depend on Interned sharing: the modes that
\* the pass leaves in the shared content, copied to each reference, are the
\* modes that the pass gives to the document built with copies.
Thm_C6_SharingIndependent ==
    runs = 1 =>
        InlineHeap(slices) = DocumentPropagateExpand(InlineHeap(slices0)).sl

\* an Interned referenced twice whose content holds a group that the pass
\* marks
Wit_C6_SharedGroupMarked ==
    /\ runs = 1
    /\ \E id \in InternedIds :
          /\ \E i \in DOMAIN slices[id] :
                /\ IsTag(slices[id][i], "StartGroup")
                /\ ModeOf(slices0, <<id, i>>) = "Flat"
                /\ ModeOf(slices, <<id, i>>) = "Propagated"
          /\ Cardinality({j \in DOMAIN slices[0] : slices[0][j] = Interned(id)}) >= 2

\* C7 as stated: a group that holds a Line(Hard), Line(Empty) or
\* Line(Literal) is marked.
Claim_C7_LiteralLineExpands ==
    runs >= 1 =>
        \A g \in GroupsOf(slices) :
            (\E j \in Inside(slices[g[1]], g[2]) :
                slices[g[1]][j] \in {Line("Hard"), Line("Empty"), Line("Literal")})
            => ModeOf(slices, g) # "Flat"

(***************************************************************************)
(* FormatElements for [FormatElement]: will_break, start_tag, end_tag      *)
(***************************************************************************)
StartLineSuffix == Tag("StartLineSuffix")
EndLineSuffix == Tag("EndLineSuffix")
StartIndent == Tag("StartIndent")
EndIndent == Tag("EndIndent")

\* Tag::kind
TagKindOf(tag) ==
    CASE tag \in {"StartGroup", "EndGroup"} -> "Group"
      [] tag \in {"StartIndent", "EndIndent"} -> "Indent"
      [] tag \in {"StartLineSuffix", "EndLineSuffix"} -> "LineSuffix"
      [] OTHER -> "-"

\* Tag::is_start
is_start(tag) == tag \in {"StartGroup", "StartIndent", "StartLineSuffix"}

RECURSIVE will_break_from(_, _, _, _)

\* FormatElements::will_break for FormatElement
ElementWillBreak(sl, element) ==
    CASE element.k = "ExpandParent" -> TRUE
      [] IsTag(element, "StartGroup") -> ~is_flat(element.mode)
      [] element.k = "Line" -> element.mode \in {"Hard", "Empty"}
      [] element.k \in {"StaticText", "DynamicText", "LocatedTokenText"} ->
            Contains(element.text, "\n")
      [] element.k = "Interned" -> will_break_from(sl, element.id, 1, 0)
      [] element.k = "BestFitting" -> will_break_from(sl, Variants(element.id)[1], 1, 0)
      [] OTHER -> FALSE

\* a bug that looks into an Interned whatever the ignore_depth is
InternedArmGuard_Always(ignore_depth) == TRUE

\* the guard of the arm FormatElement::Interned(interned) of will_break
InternedArmGuard(ignore_depth) == ignore_depth = 0

\* fn will_break(&self) of a slice, from element i on.  The slices of the
\* model close every StartLineSuffix, so `ignore_depth -= 1` is not reached
\* at 0 (it would overflow the usize).
will_break_from(sl, s, i, ignore_depth) ==
    IF i > Len(sl[s]) THEN FALSE
    ELSE LET element == sl[s][i]
         IN  CASE IsTag(element, "StartLineSuffix") ->
                    will_break_from(sl, s, i + 1, ignore_depth + 1)
               [] IsTag(element, "EndLineSuffix") ->
                    will_break_from(sl, s, i + 1, ignore_depth - 1)
               [] element.k = "Interned" /\ InternedArmGuard(ignore_depth) ->
                    \/ will_break_from(sl, element.id, 1, 0)
                    \/ will_break_from(sl, s, i + 1, ignore_depth)
               [] OTHER ->
                    \/ ignore_depth = 0 /\ ElementWillBreak(sl, element)
                    \/ will_break_from(sl, s, i + 1, ignore_depth)

will_break(sl, s) == will_break_from(sl, s, 1, 0)

RECURSIVE end_tag(_, _, _)
\* fn end_tag(&self, kind) of a slice, with end_tag of its last element
end_tag(sl, s, kind) ==
    IF sl[s] = <<>> THEN NoTag
    ELSE LET element == Last(sl[s])
         IN  CASE /\ element.k = "Tag"
                  /\ TagKindOf(element.tag) = kind
                  /\ ~is_start(element.tag) ->
                    [found |-> TRUE, s |-> s, i |-> Len(sl[s]), depth |-> 0]
               [] element.k = "Interned" -> end_tag(sl, element.id, kind)
               [] OTHER -> NoTag

\* a bug that takes the first Start tag met, nested or not
IsBalancingStart_Any(depth) == depth >= 1

\* `else if *depth == 1 { return Some(tag) }`
IsBalancingStart(depth) == depth = 1

\* fn traverse_slice(slice, kind, depth), from element i down to the first;
\* the result carries the depth it leaves in `*depth`
RECURSIVE traverse_slice(_, _, _, _, _)
traverse_slice(sl, s, i, kind, depth) ==
    IF i = 0 THEN [NoTag EXCEPT !.depth = depth]
    ELSE LET element == sl[s][i]
         IN  CASE element.k = "Tag" /\ TagKindOf(element.tag) = kind ->
                    IF is_start(element.tag)
                    THEN IF depth = 0 THEN [NoTag EXCEPT !.depth = depth]
                         ELSE IF IsBalancingStart(depth)
                              THEN [found |-> TRUE, s |-> s, i |-> i, depth |-> depth]
                              ELSE traverse_slice(sl, s, i - 1, kind, depth - 1)
                    ELSE traverse_slice(sl, s, i - 1, kind, depth + 1)
               [] element.k = "Interned" ->
                    LET r == traverse_slice(sl, element.id, Len(sl[element.id]), kind, depth)
                    IN  IF r.found THEN r
                        ELSE IF r.depth = 0 THEN r
                        ELSE traverse_slice(sl, s, i - 1, kind, r.depth)
               [] OTHER -> traverse_slice(sl, s, i - 1, kind, depth)

\* fn start_tag(&self, kind)
start_tag(sl, s, kind) ==
    IF ~end_tag(sl, s, kind).found THEN NoTag
    ELSE [traverse_slice(sl, s, Len(sl[s]), kind, 0) EXCEPT !.depth = 0]

(***************************************************************************)
(* The slices will_break is asked about                                    *)
(***************************************************************************)
BalancedLineSuffix(seq) == Balanced(seq, "StartLineSuffix", "EndLineSuffix")

BreakLeaves == {Line("Hard"), Line("Soft")}

BreakRoots ==
    {seq \in SeqsUpTo(BreakLeaves \cup {StartLineSuffix, EndLineSuffix}
                          \cup InternedRefs \cup BestFittingRefs,
                      MaxQueryLen) : BalancedLineSuffix(seq) /\ OneOfEach(seq)}
BreakInternedContents ==
    {seq \in SeqsUpTo(BreakLeaves \cup {StartLineSuffix, EndLineSuffix}
                          \cup (InternedRefs \ {Interned(1)}),
                      MaxQueryInternedLen) : BalancedLineSuffix(seq)}
BreakVariantContents == SeqsUpTo(BreakLeaves, MaxVariantLen)
BreakLeafRoots ==
    {seq \in SeqsUpTo(AllLeaves \cup {StartGroup("Flat"), StartGroup("Expand"), EndGroup,
                                      StartLineSuffix, EndLineSuffix},
                      MaxQueryLeafLen) : BalancedLineSuffix(seq) /\ BalancedGroups(seq)}

InitWillBreak ==
    /\ \/ \E root \in BreakRoots :
          \E ic \in [InternedIds ->
                        IF HasKind(root, "Interned") THEN BreakInternedContents
                        ELSE EmptyOnly] :
          \E vc \in [VariantSlices ->
                        IF HasKind(root, "BestFitting") THEN BreakVariantContents
                        ELSE EmptyOnly] :
             /\ WellFormed(Heap(root, ic, vc))
             /\ InitDoc(Heap(root, ic, vc))
       \/ \E root \in BreakLeafRoots :
             InitDoc(Heap(root, [id \in InternedIds |-> <<>>],
                          [s \in VariantSlices |-> <<>>]))
    /\ InitOther

\* document.will_break()
QueryWillBreak ==
    /\ query.op = "none"
    /\ query' = [NoQuery EXCEPT !.op = "will_break", !.breaks = will_break(slices, 0)]
    /\ UNCHANGED <<docVars, bufVars, restVars>>

NextWillBreak == QueryWillBreak

SpecWillBreak == InitWillBreak /\ [][NextWillBreak]_vars

RECURSIVE BreaksOutsideLineSuffix(_, _)

\* the element forces a break
ForcesBreak(sl, element) ==
    \/ IsExpandingElement(element)
    \/ IsTag(element, "StartGroup") /\ element.mode # "Flat"
    \/ /\ element.k = "BestFitting"
       /\ BreaksOutsideLineSuffix(sl, Variants(element.id)[1])

\* with the Interned's of slice s replaced by their contents, some element
\* outside every StartLineSuffix..EndLineSuffix range forces a break
BreaksOutsideLineSuffix(sl, s) ==
    LET flat == InlineSeq(sl, sl[s])
    IN  \E n \in DOMAIN flat :
            /\ TagDepth(flat, "StartLineSuffix", "EndLineSuffix", n) = 0
            /\ ForcesBreak(sl, flat[n])

\* C8: will_break of a slice whose LineSuffix tags are balanced is true
\* exactly when an element outside every LineSuffix range forces a break,
\* looking into the Interned sub-documents; what lies in a LineSuffix
\* range, Interned content included, never makes it true.
Thm_C8_WillBreakIgnoresLineSuffix ==
    query.op = "will_break" => (query.breaks <=> BreaksOutsideLineSuffix(slices, 0))

\* will_break is false of a slice that holds, in a LineSuffix range, an
\* Interned whose content breaks
Wit_C8_BreakingInternedInLineSuffix ==
    /\ query.op = "will_break"
    /\ ~query.breaks
    /\ \E n \in DOMAIN slices[0] :
          /\ slices[0][n].k = "Interned"
          /\ TagDepth(slices[0], "StartLineSuffix", "EndLineSuffix", n) > 0
          /\ slices[slices[0][n].id] # <<>>
          /\ \E m \in DOMAIN slices[slices[0][n].id] :
                slices[slices[0][n].id][m] = Line("Hard")

(***************************************************************************)
(* The slices start_tag is asked about                                     *)
(***************************************************************************)
TagKinds == {"Group", "Indent"}
TagAlphabet == {StartGroup("Flat"), EndGroup, StartIndent, EndIndent, Space}

TagRoots == SeqsUpTo(TagAlphabet \cup InternedRefs, MaxQueryLen)
TagInternedContents ==
    SeqsUpTo(TagAlphabet \cup (InternedRefs \ {Interned(1)}), MaxQueryInternedLen)

InitStartTag ==
    /\ \E root \in TagRoots :
       \E ic \in [InternedIds ->
                     IF HasKind(root, "Interned") THEN TagInternedContents ELSE EmptyOnly] :
          /\ WellFormed(Heap(root, ic, [s \in VariantSlices |-> <<>>]))
          /\ InitDoc(Heap(root, ic, [s \in VariantSlices |-> <<>>]))
    /\ InitOther

\* document.start_tag(kind)
QueryStartTag(kind) ==
    /\ query.op = "none"
    /\ query' = [NoQuery EXCEPT !.op = "start_tag", !.kind = kind,
                                !.tag = start_tag(slices, 0, kind)]
    /\ UNCHANGED <<docVars, bufVars, restVars>>

NextStartTag == \E kind \in TagKinds : QueryStartTag(kind)

SpecStartTag == InitStartTag /\ [][NextStartTag]_vars

\* the places of the elements of seq in order, those of the content of an
\* Interned in the place of the Interned
RECURSIVE FlatPlaces(_, _, _)
FlatPlaces(sl, s, i) ==
    IF i > Len(sl[s]) THEN <<>>
    ELSE (IF sl[s][i].k = "Interned"
          THEN FlatPlaces(sl, sl[s][i].id, 1) ELSE <<(<<s, i>>)>>)
         \o FlatPlaces(sl, s, i + 1)

IsTagOf(sl, place, kind, start) ==
    LET element == sl[place[1]][place[2]]
    IN  /\ element.k = "Tag"
        /\ element.tag = (IF kind = "Group"
                          THEN (IF start THEN "StartGroup" ELSE "EndGroup")
                          ELSE (IF start THEN "StartIndent" ELSE "EndIndent"))

\* the slice ends with the End tag of the kind: its last element is that
\* tag, or an Interned whose content ends with it
RECURSIVE EndsWithEnd(_, _, _)
EndsWithEnd(sl, s, kind) ==
    /\ sl[s] # <<>>
    /\ \/ IsTagOf(sl, <<s, Len(sl[s])>>, kind, FALSE)
       \/ /\ Last(sl[s]).k = "Interned"
          /\ EndsWithEnd(sl, Last(sl[s]).id, kind)

\* End tags less Start tags of the kind among the places m..Len(flat)
Surplus(sl, flat, kind, m) ==
    Cardinality({q \in m..Len(flat) : IsTagOf(sl, flat[q], kind, FALSE)})
        - Cardinality({q \in m..Len(flat) : IsTagOf(sl, flat[q], kind, TRUE)})

\* the places of flat whose Start tag balances the End tag at the end
BalancingStarts(sl, flat, kind) ==
    {m \in 1..Len(flat) :
        /\ IsTagOf(sl, flat[m], kind, TRUE)
        /\ Surplus(sl, flat, kind, m) = 0
        /\ \A q \in (m + 1)..Len(flat) : Surplus(sl, flat, kind, q) >= 1}

\* C9: start_tag(kind) of a slice that ends with the End tag of the kind
\* gives the Start tag that balances it, nested pairs of the kind skipped
\* and Interned sub-documents looked into; it gives None when the slice
\* does not end with an End tag of the kind or holds no balancing Start.
Thm_C9_StartTagBalancesEnd ==
    query.op = "start_tag" =>
        LET flat == FlatPlaces(slices, 0, 1)
            ends == EndsWithEnd(slices, 0, query.kind)
            starts == IF ends THEN BalancingStarts(slices, flat, query.kind) ELSE {}
        IN  /\ query.tag.found <=> starts # {}
            /\ query.tag.found =>
                  \A m \in starts : flat[m] = <<query.tag.s, query.tag.i>>

\* the balancing Start tag is found in an Interned, past a nested pair of
\* the same kind
Wit_C9_StartInInternedPastNestedPair ==
    /\ query.op = "start_tag"
    /\ query.tag.found
    /\ \E h, i, j \in DOMAIN slices[0] :
          /\ h < i /\ i < j /\ j < Len(slices[0])
          /\ slices[0][h].k = "Interned"
          /\ query.tag.s = slices[0][h].id
          /\ IsTagOf(slices, <<0, i>>, query.kind, TRUE)
          /\ IsTagOf(slices, <<0, j>>, query.kind, FALSE)

(***************************************************************************)
(* VecBuffer                                                               *)
(***************************************************************************)
BufferElements == {Space, Line("Hard")}

EmptyHeap == Heap(<<>>, [id \in InternedIds |-> <<>>], [s \in VariantSlices |-> <<>>])

\* VecBuffer::new
InitBuffer ==
    /\ InitDoc(EmptyHeap)
    /\ InitRest
    /\ query = NoQuery
    /\ elements = <<>>
    /\ snapshots = <<>>
    /\ last = NoOp

\* a snapshot is used up by the restore it is given to: the ones left can
\* tell that a restore has happened since they were taken
AfterRestore(rest) == [n \in DOMAIN rest |-> [rest[n] EXCEPT !.clean = FALSE]]

\* seq without its n-th element
Without(seq, n) == SubSeq(seq, 1, n - 1) \o SubSeq(seq, n + 1, Len(seq))

\* BufferSnapshot::position(self.elements.len())
SnapshotPosition(elems) == Len(elems)

RestoredElements_Untruncated(elems, position) == elems

\* self.elements.truncate(position)
RestoredElements(elems, position) ==
    IF position >= Len(elems) THEN elems ELSE SubSeq(elems, 1, position)

\* a bug that also rejects a snapshot taken at the current length
RestoreAccepted_Strict(len, position) == len > position

\* assert!(self.elements.len() >= position, "Outdated snapshot. ...")
RestoreAccepted(len, position) == len >= position

\* buffer.write_element(element)
WriteElement(element) ==
    /\ last.ok
    /\ Len(elements) < MaxBufferLen
    /\ elements' = Append(elements, element)
    /\ last' = [NoOp EXCEPT !.op = "write_element"]
    /\ UNCHANGED <<snapshots, docVars, query, softVars, idleVars>>

\* buffer.snapshot(); taken is the elements the buffer holds at the call.
\* snapshots holds the snapshots not yet restored, in the order taken
Snapshot ==
    /\ last.ok
    /\ Len(snapshots) < MaxSnapshots
    /\ snapshots' = Append(snapshots,
                           [position |-> SnapshotPosition(elements),
                            taken |-> elements,
                            clean |-> TRUE])
    /\ last' = [NoOp EXCEPT !.op = "snapshot"]
    /\ UNCHANGED <<elements, docVars, query, softVars, idleVars>>

\* a bug that makes a restore start the group ids over
RestoredState_Reset(st) == [st EXCEPT !.next_id = 1]

\* restore_snapshot has the elements and the snapshot only: the FormatState,
\* which the Formatter holds beside the buffer, is as it was
RestoredState(st) == st

\* buffer.restore_snapshot(snapshot), the n-th of those not yet restored
RestoreSnapshot(n) ==
    /\ last.ok
    /\ n \in DOMAIN snapshots
    /\ LET snapshot == snapshots[n]
           position == snapshot.position
       IN  /\ last' = [op |-> "restore_snapshot",
                       ok |-> RestoreAccepted(Len(elements), position),
                       position |-> position,
                       taken |-> snapshot.taken,
                       clean |-> snapshot.clean,
                       len |-> Len(elements),
                       newest |-> n = Len(snapshots),
                       before |-> elements]
           /\ elements' = IF RestoreAccepted(Len(elements), position)
                          THEN RestoredElements(elements, position)
                          ELSE elements
    /\ snapshots' = AfterRestore(Without(snapshots, n))
    /\ state' = RestoredState(state)
    /\ UNCHANGED <<docVars, query, softVars, option, program, printer>>

NextBuffer ==
    \/ \E element \in BufferElements : WriteElement(element) /\ UNCHANGED recVars
    \/ Snapshot /\ UNCHANGED recVars
    \/ \E n \in DOMAIN snapshots : RestoreSnapshot(n) /\ UNCHANGED recVars

SpecBuffer == InitBuffer /\ [][NextBuffer]_vars

\* C10: restoring a snapshot after nothing but write_element calls since
\* it was taken returns, and leaves the buffer with exactly the elements
\* it held when the snapshot was taken.
Thm_C10_RestoreAfterWrites ==
    (last.op = "restore_snapshot" /\ last.clean) =>
        /\ last.ok
        /\ elements = last.taken

\* a snapshot of a buffer that holds elements is restored after writes
Wit_C10_WritesDropped ==
    /\ last.op = "restore_snapshot"
    /\ last.clean
    /\ last.position > 0
    /\ last.len > last.position

\* C11: restore_snapshot panics exactly when the position of the snapshot
\* is greater than the length of the buffer, and then leaves the elements
\* as they were; with a length of at least the position it returns.
Thm_C11_RejectsOnlyOutdated ==
    last.op = "restore_snapshot" =>
        /\ last.ok <=> ~(last.position > last.len)
        /\ ~last.ok => elements = last.before

\* a snapshot taken at a greater length than the buffer now has is rejected
Wit_C11_OutdatedRejected ==
    /\ last.op = "restore_snapshot"
    /\ ~last.ok
    /\ last.position > Len(elements)
    /\ elements = last.before

\* C12: a restore of a snapshot that is not the newest of the snapshots
\* not yet restored panics.
Claim_C12_OutOfOrderRestorePanics ==
    (last.op = "restore_snapshot" /\ ~last.newest) => ~last.ok

(***************************************************************************)
(* RemoveSoftLinesBuffer  (buffer.rs)                                      *)
(*                                                                         *)
(* pool is the memory of Interned and BestFitting contents: pool[id] is    *)
(* the content of the Interned with that id (the id stands for the Rc      *)
(* pointer), and the variants of a BestFitting are the pool entries named  *)
(* by SoftVariants.  Interned::new appends an entry.  The state threaded   *)
(* through clean_interned:                                                 *)
(*   pool       the memory                                                 *)
(*   cache      interned_cache                                             *)
(*   stack      condition_content_stack (the modes of the conditions)      *)
(*   cleanings  the Interned whose content was gone through                *)
(*   result     the Interned the latest clean_interned call returned       *)
(***************************************************************************)
StartConditionalContent(mode) ==
    Element("Tag", "StartConditionalContent", mode, NoText, 0)
EndConditionalContent == Tag("EndConditionalContent")
PrintModes == {"Flat", "Expanded"}

SoftInternedIds == 1..NumSoftInterned
SoftBestFittingIds == 1..NumSoftBestFitting

\* the pool entries holding the variants of BestFitting b, most flat first
SoftVariants(b) ==
    [v \in 1..NumVariants |-> NumSoftInterned + (b - 1) * NumVariants + v]

\* BestFittingVariants::most_flat
most_flat(b) == SoftVariants(b)[1]

\* a bug that takes every open scope for an Expanded one
is_in_expanded_conditional_content_AnyMode(stack) ==
    stack # <<>>

\* self.conditional_content_stack.iter().last()
\*     .is_some_and(|condition| condition.mode == PrintMode::Expanded)
is_in_expanded_conditional_content(stack) ==
    stack # <<>> /\ Last(stack) = "Expanded"

\* Vec::pop, which leaves an empty Vec as it is
Pop(stack) == IF stack = <<>> THEN stack ELSE Front(stack)

\* a bug that lets an Interned holding only Line(SoftOrSpace) pass unchanged
MustChange_NotSoftOrSpace(element) ==
    \/ element = Line("Soft")
    \/ IsTag(element, "StartConditionalContent")
    \/ IsTag(element, "EndConditionalContent")
    \/ element.k = "BestFitting"

\* the first pattern of the find_map of clean_interned
MustChange(element) ==
    \/ element.k = "Line" /\ element.mode \in {"Soft", "SoftOrSpace"}
    \/ IsTag(element, "StartConditionalContent")
    \/ IsTag(element, "EndConditionalContent")
    \/ element.k = "BestFitting"

\* a bug that pushes the most flat variant without .rev()
PushMostFlat_Reversed(p, b, element_stack) ==
    [n \in 1..Len(p[most_flat(b)]) |->
        p[most_flat(b)][Len(p[most_flat(b)]) + 1 - n]] \o element_stack

\* most_flat.iter().rev().for_each(|element| element_stack.push(element)).
\* The element_stack of the model has its top at the head.
PushMostFlat(p, b, element_stack) == p[most_flat(b)] \o element_stack

\* a bug that forgets what it has cleaned
CacheInsert_Forgets(cache, interned, result) == cache

\* interned_cache.insert(interned.clone(), result.clone())
CacheInsert(cache, interned, result) ==
    [id \in DOMAIN cache \cup {interned} |->
        IF id = interned THEN result ELSE cache[id]]

RECURSIVE clean_interned(_, _)
RECURSIVE find_first_change(_, _, _)
RECURSIVE clean_rest(_, _, _)

\* the find_map of clean_interned over interned[index..]: the first
\* element that must be changed, with the copy of what precedes it
find_first_change(st, id, index) ==
    LET interned == st.pool[id]
    IN  IF index > Len(interned)
        THEN [st |-> st, found |-> FALSE, cleaned |-> <<>>, rest |-> <<>>]
        ELSE LET element == interned[index]
             IN  IF MustChange(element)
                 THEN [st |-> st, found |-> TRUE,
                       cleaned |-> SubSeq(interned, 1, index - 1),
                       rest |-> SubSeq(interned, index, Len(interned))]
                 ELSE IF element.k = "Interned"
                 THEN LET r == clean_interned(st, element.id)
                      IN  IF r.result # element.id
                          THEN [st |-> r, found |-> TRUE,
                                cleaned |-> Append(SubSeq(interned, 1, index - 1),
                                                   Interned(r.result)),
                                rest |-> SubSeq(interned, index + 1, Len(interned))]
                          ELSE find_first_change(r, id, index + 1)
                 ELSE find_first_change(st, id, index + 1)

\* the `while let Some(element) = element_stack.pop()` of clean_interned
clean_rest(st, element_stack, cleaned) ==
    IF element_stack = <<>> THEN [st |-> st, cleaned |-> cleaned]
    ELSE LET element == Head(element_stack)
             rest == Tail(element_stack)
         IN  IF IsTag(element, "StartConditionalContent")
             THEN clean_rest([st EXCEPT !.stack = Append(@, element.mode)], rest, cleaned)
             ELSE IF IsTag(element, "EndConditionalContent")
             THEN clean_rest([st EXCEPT !.stack = Pop(@)], rest, cleaned)
             ELSE IF is_in_expanded_conditional_content(st.stack)
             THEN clean_rest(st, rest, cleaned)
             ELSE IF element = Line("Soft")
             THEN clean_rest(st, rest, cleaned)
             ELSE IF element = Line("SoftOrSpace")
             THEN clean_rest(st, rest, Append(cleaned, Space))
             ELSE IF element.k = "Interned"
             THEN LET r == clean_interned(st, element.id)
                  IN  clean_rest(r, rest, Append(cleaned, Interned(r.result)))
             ELSE IF element.k = "BestFitting"
             THEN clean_rest(st, PushMostFlat(st.pool, element.id, rest), cleaned)
             ELSE clean_rest(st, rest, Append(cleaned, element))

\* fn clean_interned(interned, interned_cache, condition_content_stack)
clean_interned(st, id) ==
    IF id \in DOMAIN st.cache THEN [st EXCEPT !.result = st.cache[id]]
    ELSE LET f == find_first_change([st EXCEPT !.cleanings = Append(@, id)], id, 1)
         IN  IF f.found
             THEN LET c == clean_rest(f.st, f.rest, f.cleaned)
                      new == Len(c.st.pool) + 1   \* Interned::new(cleaned)
                  IN  [c.st EXCEPT !.pool = Append(@, c.cleaned),
                                   !.cache = CacheInsert(@, id, new),
                                   !.result = new]
             ELSE [f.st EXCEPT !.cache = CacheInsert(@, id, id), !.result = id]

\* the `while let Some(element) = element_statck.pop()` of
\* RemoveSoftLinesBuffer::write_element; inner is what the inner buffer holds
RECURSIVE write_rest(_, _, _)
write_rest(st, element_stack, inner) ==
    IF element_stack = <<>> THEN [st |-> st, inner |-> inner]
    ELSE LET element == Head(element_stack)
             rest == Tail(element_stack)
         IN  IF IsTag(element, "StartConditionalContent")
             THEN write_rest([st EXCEPT !.stack = Append(@, element.mode)], rest, inner)
             ELSE IF IsTag(element, "EndConditionalContent")
             THEN write_rest([st EXCEPT !.stack = Pop(@)], rest, inner)
             ELSE IF is_in_expanded_conditional_content(st.stack)
             THEN write_rest(st, rest, inner)
             ELSE IF element = Line("Soft")
             THEN write_rest(st, rest, inner)
             ELSE IF element = Line("SoftOrSpace")
             THEN write_rest(st, rest, Append(inner, Space))
             ELSE IF element.k = "Interned"
             THEN LET r == clean_interned(st, element.id)
                  IN  write_rest(r, rest, Append(inner, Interned(r.result)))
             ELSE IF element.k = "BestFitting"
             THEN write_rest(st, PushMostFlat(st.pool, element.id, rest), inner)
             ELSE write_rest(st, rest, Append(inner, element))

\* RemoveSoftLinesBuffer::write_element
SoftWriteElement(st, element, inner) == write_rest(st, <<element>>, inner)

(***************************************************************************)
(* What a RemoveSoftLinesBuffer is given                                   *)
(***************************************************************************)
SoftLeaves ==
    {Line("Soft"), Line("SoftOrSpace"), Line("Hard"),
     StartConditionalContent("Flat"), StartConditionalContent("Expanded"),
     EndConditionalContent}
SoftRefs ==
    {Interned(id) : id \in SoftInternedIds} \cup {BestFitting(b) : b \in SoftBestFittingIds}

NumSoftEntries == NumSoftInterned + NumSoftBestFitting * NumVariants

\* the BestFitting that pool entry n is a variant of, and which variant
EntryOwner(n) == ((n - NumSoftInterned - 1) \div NumVariants) + 1
EntryVariant(n) == ((n - NumSoftInterned - 1) % NumVariants) + 1
IsMostFlatEntry(n) == n > NumSoftInterned /\ EntryVariant(n) = 1
IsOtherVariantEntry(n) == n > NumSoftInterned /\ EntryVariant(n) # 1

\* content is built before what holds it: an Interned holds later Interned
\* and BestFitting, a most flat variant holds later ones too
EntryAlphabet(n) ==
    IF n <= NumSoftInterned
    THEN SoftLeaves \cup {Interned(id) : id \in (n + 1)..NumSoftInterned}
                    \cup {BestFitting(b) : b \in n..NumSoftBestFitting}
    ELSE SoftLeaves \cup {Interned(id) : id \in (EntryOwner(n) + 1)..NumSoftInterned}
                    \cup {BestFitting(b) : b \in (EntryOwner(n) + 1)..NumSoftBestFitting}

\* the variants other than the most flat one hold a text that nothing else holds
OtherVariant == <<StaticText(Text_a)>>

EntryContents(n, work) ==
    IF IsOtherVariantEntry(n) THEN {OtherVariant}
    ELSE SeqsUpTo(EntryAlphabet(n), IF work < MaxSoftLen THEN work ELSE MaxSoftLen)

EntryWork(n, content) == IF IsOtherVariantEntry(n) THEN 0 ELSE Len(content)

RECURSIVE SoftPoolsFrom(_, _)
SoftPoolsFrom(n, work) ==
    IF n > NumSoftEntries THEN {<<>>}
    ELSE UNION {{<<content>> \o p : p \in SoftPoolsFrom(n + 1, work - EntryWork(n, content))} :
                   content \in EntryContents(n, work)}

SoftPools == SoftPoolsFrom(1, MaxSoftWork - 1)

RECURSIVE PoolWork(_, _)
PoolWork(p, n) ==
    IF n > NumSoftEntries THEN 0 ELSE EntryWork(n, p[n]) + PoolWork(p, n + 1)

\* RemoveSoftLinesBuffer::new(&mut VecBuffer::new(..))
InitSoftLines ==
    /\ InitDoc(EmptyHeap)
    /\ query = NoQuery
    /\ elements = <<>>
    /\ snapshots = <<>>
    /\ last = NoOp
    /\ InitRecording
    /\ InitIdle
    /\ \E p \in SoftPools : InitSoft(p)

\* soft_lines_buffer.write_element(element)
SoftWrite(element) ==
    /\ PoolWork(pool, 1) + Len(written) < MaxSoftWork
    /\ LET st == [pool |-> pool, cache |-> interned_cache,
                  stack |-> conditional_content_stack,
                  cleanings |-> cleanings, result |-> 0]
           r == SoftWriteElement(st, element, elements)
       IN  /\ pool' = r.st.pool
           /\ interned_cache' = r.st.cache
           /\ conditional_content_stack' = r.st.stack
           /\ cleanings' = r.st.cleanings
           /\ elements' = r.inner
    /\ written' = Append(written, element)
    /\ UNCHANGED <<docVars, query, snapshots, last, recVars, idleVars>>

NextSoftLines == \E element \in SoftLeaves \cup SoftRefs : SoftWrite(element)

SpecSoftLines == InitSoftLines /\ [][NextSoftLines]_vars

\* seq with each Interned replaced by its content and each BestFitting by
\* its most flat variant, all the way down
RECURSIVE InlineAll(_, _)
InlineAll(p, seq) ==
    IF seq = <<>> THEN <<>>
    ELSE LET element == Head(seq)
         IN  (IF element.k = "Interned" THEN InlineAll(p, p[element.id])
              ELSE IF element.k = "BestFitting"
                   THEN InlineAll(p, p[SoftVariants(element.id)[1]])
                   ELSE <<element>>)
             \o InlineAll(p, Tail(seq))

\* seq without its Line(Soft), and with a Space for each Line(SoftOrSpace)
RECURSIVE WithoutSoftLines(_)
WithoutSoftLines(seq) ==
    IF seq = <<>> THEN <<>>
    ELSE (IF Head(seq) = Line("Soft") THEN <<>>
          ELSE IF Head(seq) = Line("SoftOrSpace") THEN <<Space>>
          ELSE <<Head(seq)>>) \o WithoutSoftLines(Tail(seq))

IsSoftLine(element) == element.k = "Line" /\ element.mode \in {"Soft", "SoftOrSpace"}

\* no soft line and no BestFitting in seq, nor in the Interned it holds
RECURSIVE SoftFree(_, _)
SoftFree(p, seq) ==
    \A n \in DOMAIN seq :
        /\ ~IsSoftLine(seq[n])
        /\ seq[n].k # "BestFitting"
        /\ seq[n].k = "Interned" => SoftFree(p, p[seq[n].id])

IsConditionalContentTag(element) ==
    IsTag(element, "StartConditionalContent") \/ IsTag(element, "EndConditionalContent")

NoConditionalContent(seq) == \A n \in DOMAIN seq : ~IsConditionalContentTag(seq[n])

\* C13: the inner buffer holds no Line(Soft) and no Line(SoftOrSpace), at
\* top level or in an Interned it holds, and no BestFitting a variant could
\* hide one in; where no conditional content is involved, what it holds is,
\* Interned and most flat variants inlined, what was written with every
\* Line(Soft) dropped and a Space in the place of every Line(SoftOrSpace).
Thm_C13_NoSoftLineReachesInner ==
    /\ SoftFree(pool, elements)
    /\ NoConditionalContent(InlineAll(pool, written)) =>
          InlineAll(pool, elements) = WithoutSoftLines(InlineAll(pool, written))

\* a BestFitting was written whose most flat variant holds an Interned
\* with a Line(SoftOrSpace), and the inner buffer got the Space
Wit_C13_SoftOrSpaceInInternedInVariant ==
    /\ NoConditionalContent(InlineAll(pool, written))
    /\ \E n \in DOMAIN written :
          /\ written[n].k = "BestFitting"
          /\ \E m \in DOMAIN pool[most_flat(written[n].id)] :
                LET element == pool[most_flat(written[n].id)][m]
                IN  /\ element.k = "Interned"
                    /\ \E k \in DOMAIN pool[element.id] :
                          pool[element.id][k] = Line("SoftOrSpace")
    /\ \E n \in DOMAIN elements :
          /\ elements[n].k = "Interned"
          /\ \E k \in DOMAIN pool[elements[n].id] : pool[elements[n].id][k] = Space

\* some scope of mode Expanded is open
InExpandedScope(open) == \E n \in DOMAIN open : open[n] = "Expanded"

\* the innermost open scope is of mode Expanded
InnermostIsExpanded(open) == open # <<>> /\ Last(open) = "Expanded"

\* seq without the conditional-content tags and without what stands in an
\* Expanded scope: in any open one, or (innermost) in the innermost open
\* one only; open is the stack of the modes of the scopes open so far
RECURSIVE Visible(_, _, _)
Visible(seq, open, innermost) ==
    IF seq = <<>> THEN <<>>
    ELSE IF IsTag(Head(seq), "StartConditionalContent")
    THEN Visible(Tail(seq), Append(open, Head(seq).mode), innermost)
    ELSE IF IsTag(Head(seq), "EndConditionalContent")
    THEN Visible(Tail(seq), IF open = <<>> THEN open ELSE Front(open), innermost)
    ELSE (IF (IF innermost THEN InnermostIsExpanded(open) ELSE InExpandedScope(open))
          THEN <<>> ELSE <<Head(seq)>>)
         \o Visible(Tail(seq), open, innermost)

\* every EndConditionalContent of seq closes a scope opened in seq, and
\* every scope opened in seq is closed in it
ScopesBalanced(seq) ==
    Balanced(seq, "StartConditionalContent", "EndConditionalContent")

\* C14: nothing written while a conditional-content scope of mode Expanded
\* is open reaches the inner buffer, a nested scope of mode Flat included
\* (each Interned and each variant closing the scopes it opens).
Claim_C14_ExpandedScopeSuppressed ==
    (\A n \in 1..NumSoftEntries : ScopesBalanced(pool[n])) =>
        InlineAll(pool, elements)
            = WithoutSoftLines(Visible(InlineAll(pool, written), <<>>, FALSE))

\* without Interned and BestFitting, what the code lets through is what
\* stands where the innermost open scope is not of mode Expanded
Holds_C14_InnermostScopeDecides ==
    (\A n \in DOMAIN written : written[n] \in SoftLeaves) =>
        elements = WithoutSoftLines(Visible(written, <<>>, TRUE))

\* the state of the RemoveSoftLinesBuffer, as clean_interned threads it
SoftState ==
    [pool |-> pool, cache |-> interned_cache, stack |-> conditional_content_stack,
     cleanings |-> cleanings, result |-> 0]

\* write_element called on the elements of seq one after the other
RECURSIVE WriteEach(_, _, _)
WriteEach(st, seq, inner) ==
    IF seq = <<>> THEN [st |-> st, inner |-> inner]
    ELSE LET r == SoftWriteElement(st, Head(seq), inner)
         IN  WriteEach(r.st, Tail(seq), r.inner)

\* C15: writing a BestFitting where the content is not suppressed does
\* what writing the elements of its most flat variant one after the other
\* does, to the inner buffer and to the cache; and a text that only the
\* other variants hold never reaches the inner buffer.
Thm_C15_BestFittingIsItsMostFlatVariant ==
    [][\A b \in SoftBestFittingIds :
          written' = Append(written, BestFitting(b)) =>
              /\ ~is_in_expanded_conditional_content(conditional_content_stack) =>
                    LET r == WriteEach(SoftState, pool[SoftVariants(b)[1]], elements)
                    IN  /\ elements' = r.inner
                        /\ pool' = r.st.pool
                        /\ interned_cache' = r.st.cache
                        /\ conditional_content_stack' = r.st.stack
              /\ \A n \in DOMAIN InlineAll(pool', elements') :
                    InlineAll(pool', elements')[n] # StaticText(Text_a)]_vars

\* the BestFitting written last has a most flat variant that holds a
\* Line(SoftOrSpace) and another BestFitting or an Interned, and the inner
\* buffer got elements for it
Wit_C15_VariantWithNestedContent ==
    /\ written # <<>>
    /\ Last(written).k = "BestFitting"
    /\ conditional_content_stack = <<>>
    /\ LET variant == pool[SoftVariants(Last(written).id)[1]]
       IN  /\ Len(written) = 1
           /\ \E n, m \in DOMAIN variant :
                 /\ variant[n] = Line("SoftOrSpace")
                 /\ variant[m].k \in {"BestFitting", "Interned"}
                 /\ pool[IF variant[m].k = "Interned" THEN variant[m].id
                         ELSE SoftVariants(variant[m].id)[1]] # <<>>
    /\ Len(elements) >= 2

\* the Interned holds no soft line, no conditional-content tag, no
\* BestFitting, and no Interned that holds one
RECURSIVE NothingToChange(_, _)
NothingToChange(p, id) ==
    \A n \in DOMAIN p[id] :
        /\ ~IsSoftLine(p[id][n])
        /\ ~IsConditionalContentTag(p[id][n])
        /\ p[id][n].k # "BestFitting"
        /\ p[id][n].k = "Interned" => NothingToChange(p, p[id][n].id)

Occurrences(seq, x) == Cardinality({n \in DOMAIN seq : seq[n] = x})

\* C16: the content of an Interned is gone through once at most; what the
\* cache holds for an Interned never changes, and it is the Interned itself
\* exactly when it holds nothing to change; an Interned written where the
\* content is not suppressed is forwarded as what the cache holds for it,
\* and when the cache held it already nothing is cleaned or allocated.
Thm_C16_CleanedInternedCached ==
    /\ [](/\ \A id \in SoftInternedIds : Occurrences(cleanings, id) <= 1
          /\ \A id \in DOMAIN interned_cache :
                (interned_cache[id] = id) <=> NothingToChange(pool, id))
    /\ [][/\ \A id \in DOMAIN interned_cache :
                /\ id \in DOMAIN interned_cache'
                /\ interned_cache'[id] = interned_cache[id]
          /\ \A id \in SoftInternedIds :
                (/\ written' = Append(written, Interned(id))
                 /\ ~is_in_expanded_conditional_content(conditional_content_stack)) =>
                    /\ id \in DOMAIN interned_cache'
                    /\ elements' = Append(elements, Interned(interned_cache'[id]))
                    /\ id \in DOMAIN interned_cache =>
                          pool' = pool /\ cleanings' = cleanings]_vars

\* the same Interned, which holds something to change, was written twice
\* and the inner buffer got the same new Interned twice
Wit_C16_SameInternedTwice ==
    /\ Len(written) = 2
    /\ written[1].k = "Interned"
    /\ written[2] = written[1]
    /\ Len(elements) = 2
    /\ elements[1].k = "Interned"
    /\ elements[2] = elements[1]
    /\ elements[1] # written[1]
    /\ Occurrences(cleanings, written[1].id) = 1

(***************************************************************************)
(* Recording  (buffer.rs), on a VecBuffer                                  *)
(***************************************************************************)
\* if self.start > elements.len() { &[] } else { &elements[self.start..] }
RecordedSlice(elems, start) ==
    IF start > Len(elems) THEN <<>> ELSE SubSeq(elems, start + 1, Len(elems))

\* the stamps follow the elements: those of the elements kept stay, an
\* element written gets the stamp of whether the Recording runs
Stamp ==
    stamps' = IF Len(elements') <= Len(stamps)
              THEN SubSeq(stamps, 1, Len(elements'))
              ELSE Append(stamps, recording.active)

\* buffer.start_recording()
StartRecording ==
    /\ last.ok
    /\ recording = NoRecording
    /\ recording' = [active |-> TRUE, stopped |-> FALSE, start |-> Len(elements)]
    /\ UNCHANGED <<stamps, recorded, bufVars, docVars, query, softVars, idleVars>>

\* recording.stop()
StopRecording ==
    /\ last.ok
    /\ recording.active
    /\ recorded' = RecordedSlice(elements, recording.start)
    /\ recording' = [recording EXCEPT !.active = FALSE, !.stopped = TRUE]
    /\ UNCHANGED <<stamps, bufVars, docVars, query, softVars, idleVars>>

\* write_element, snapshot and restore_snapshot reach the VecBuffer before
\* the Recording and, through recording.write_element and what
\* recording.write_fmt runs, while it runs
NextRecording ==
    \/ StartRecording
    \/ StopRecording
    \/ \E element \in BufferElements :
          /\ ~recording.stopped
          /\ WriteElement(element) /\ Stamp /\ UNCHANGED <<recording, recorded>>
    \/ ~recording.stopped /\ Snapshot /\ UNCHANGED recVars
    \/ \E n \in DOMAIN snapshots :
          /\ ~recording.stopped
          /\ RestoreSnapshot(n) /\ Stamp /\ UNCHANGED <<recording, recorded>>

SpecRecording == InitBuffer /\ [][NextRecording]_vars

\* the elements of the buffer whose write the Recording saw, in order
RECURSIVE Stamped(_, _)
Stamped(elems, marks) ==
    IF elems = <<>> THEN <<>>
    ELSE (IF Head(marks) THEN <<Head(elems)>> ELSE <<>>)
         \o Stamped(Tail(elems), Tail(marks))

\* a restore has taken the buffer below the start of the Recording: the
\* buffer is shorter than the start, or holds there an element written since
RewoundBelowStart ==
    \/ Len(elements) < recording.start
    \/ \E n \in DOMAIN stamps : n <= recording.start /\ stamps[n]

\* C17: stop returns the elements that were written between
\* start_recording and stop and that the buffer holds, in write order,
\* whatever writes and restores were made in between; or the empty slice
\* when the buffer was rewound below the start.
Claim_C17_StopReturnsWhatWasWritten ==
    recording.stopped =>
        \/ recorded = Stamped(elements, stamps)
        \/ RewoundBelowStart /\ recorded = <<>>

\* stop does return them when no restore went below the start
Holds_C17_WithoutRewindBelowStart ==
    (recording.stopped /\ ~RewoundBelowStart) => recorded = Stamped(elements, stamps)

(***************************************************************************)
(* The options: IndentWidth and LineWidth of base_formatter/mod.rs,        *)
(* FormatOptions of options.rs                                             *)
(***************************************************************************)
U8Max == 255
IndentWidth_MIN == 0
IndentWidth_MAX == 24
LineWidth_MIN == 1
LineWidth_MAX == 320
\* impl Default for LineWidth of options.rs, the one FormatOptions holds
LineWidth_default == 8

\* (Self::MIN..=Self::MAX).contains(&value) of IndentWidth
IndentWidthContains(value) == IndentWidth_MIN <= value /\ value <= IndentWidth_MAX

\* a bug that takes the range without its upper end
LineWidthContains_Exclusive(value) == LineWidth_MIN <= value /\ value < LineWidth_MAX

\* (Self::MIN..=Self::MAX).contains(&value) of LineWidth
LineWidthContains(value) == LineWidth_MIN <= value /\ value <= LineWidth_MAX

\* Ok(Self(value)) or Err(...FromIntError(value)): both carry the value
WidthResult(op, value, ok) ==
    [NoOption EXCEPT !.op = op, !.input = value, !.ok = ok, !.value = value]

\* IndentWidth::try_from(value: u8)
IndentWidthTryFrom(value) ==
    /\ option' = WidthResult("IndentWidth::try_from", value, IndentWidthContains(value))
    /\ UNCHANGED <<docVars, query, bufVars, softVars, recVars, program, printer, state>>

\* LineWidth::try_from(value: u16)
LineWidthTryFrom(value) ==
    /\ option' = WidthResult("LineWidth::try_from", value, LineWidthContains(value))
    /\ UNCHANGED <<docVars, query, bufVars, softVars, recVars, program, printer, state>>

\* u16::from(LineWidth) gives the field, u32::from(u16) the same number
PrintWidthFrom(line_width) == line_width % 65536

\* FormatOptions::default().as_print_options()
DefaultAsPrintOptions ==
    /\ option' = [NoOption EXCEPT !.op = "as_print_options",
                                  !.value = LineWidth_default,
                                  !.print_width = PrintWidthFrom(LineWidth_default)]
    /\ UNCHANGED <<docVars, query, bufVars, softVars, recVars, program, printer, state>>

NextOptions ==
    \/ \E value \in 0..U8Max : IndentWidthTryFrom(value)
    \/ \E value \in 0..MaxWidthInput : LineWidthTryFrom(value)
    \/ DefaultAsPrintOptions

SpecOptions == InitBuffer /\ [][NextOptions]_vars

\* C18: IndentWidth::try_from(v) is Ok exactly for 0 <= v <= 24 and
\* LineWidth::try_from(v) exactly for 1 <= v <= 320; the Ok value and the
\* error both carry v.
Thm_C18_WidthsValidated ==
    /\ option.op = "IndentWidth::try_from" =>
          /\ option.ok <=> (0 <= option.input /\ option.input <= 24)
          /\ option.value = option.input
    /\ option.op = "LineWidth::try_from" =>
          /\ option.ok <=> (1 <= option.input /\ option.input <= 320)
          /\ option.value = option.input

\* the width 320 is taken
Wit_C18_GreatestLineWidthTaken ==
    option.op = "LineWidth::try_from" /\ option.input = 320 /\ option.ok

\* C19: the default FormatOptions have line_width 80, and as_print_options
\* gives them print_width 80.
Claim_C19_DefaultLineWidthIs80 ==
    option.op = "as_print_options" => option.value = 80 /\ option.print_width = 80

(***************************************************************************)
(* Formatting a Program: format/js.rs.  The builders (hard_line_break,     *)
(* text, dynamic_text, space) write one element each.                      *)
(***************************************************************************)

MaxStatements == 3

hard_line_break == <<Line("Hard")>>
space == <<Space>>
static_text(t) == <<StaticText(t)>>
dynamic_text(t) == <<DynamicText(t)>>

\* what a fmt call wrote, and whether it returned or panicked on the way
Wrote(out) == [ok |-> TRUE, out |-> out]
Panicked == [ok |-> FALSE, out |-> <<>>]
\* the next call runs only if the one before it returned
AndThen(r, s) == IF r.ok THEN [ok |-> s.ok, out |-> r.out \o s.out] ELSE r

NoneText == [some |-> FALSE, v |-> <<>>]
SomeText(v) == [some |-> TRUE, v |-> v]

NumericLiteral(raw) == [type |-> "NumericLiteral", raw |-> raw]
StringLiteral(value) == [type |-> "StringLiteral", value |-> value]
ArrayExpression(elems) == [type |-> "ArrayExpression", elements |-> elems]
\* any other Expression, ArrayExpressionElement or Statement
OtherNode == [type |-> "Other"]
NoInit == [type |-> "None"]
VariableDeclarator(id, init) == [id |-> id, init |-> init]
VariableDeclaration(kind, declarations) ==
    [type |-> "VariableDeclaration", kind |-> kind, declarations |-> declarations]

\* impl Format for NumericLiteral: raw.expect(..) panics on None
FmtNumericLiteral(num) ==
    IF num.raw.some THEN Wrote(dynamic_text(num.raw.v)) ELSE Panicked

\* impl Format for StringLiteral
FmtStringLiteral(str, quote_style) ==
    LET quote == IF quote_style = "Double" THEN static_text(<<"\"">>)
                                           ELSE static_text(<<"'">>)
    IN  Wrote(quote \o dynamic_text(str.value) \o quote)

TodoText == static_text(<<"/* TODO */">>)

\* the loop of impl Format for ArrayExpression, from element idx on
RECURSIVE FmtArrayElements(_, _)
FmtArrayElements(elems, idx) ==
    IF idx > Len(elems) THEN Wrote(<<>>)
    ELSE AndThen(Wrote(IF idx > 1 THEN static_text(<<",">>) \o space ELSE <<>>),
         AndThen(IF elems[idx].type = "NumericLiteral"
                     THEN FmtNumericLiteral(elems[idx])
                     ELSE Wrote(TodoText),
                 FmtArrayElements(elems, idx + 1)))

\* impl Format for ArrayExpression
FmtArrayExpression(arr) ==
    AndThen(Wrote(static_text(<<"[">>)),
    AndThen(FmtArrayElements(arr.elements, 1), Wrote(static_text(<<"]">>))))

\* impl Format for Expression
FmtExpression(expr, quote_style) ==
    CASE expr.type = "NumericLiteral" -> FmtNumericLiteral(expr)
      [] expr.type = "StringLiteral" -> FmtStringLiteral(expr, quote_style)
      [] expr.type = "ArrayExpression" -> FmtArrayExpression(expr)
      [] OTHER -> Wrote(TodoText)

\* a bug that leaves out the text before the initializer
FmtVariableDeclarator_NoEquals(declarator, quote_style) ==
    AndThen(Wrote(IF declarator.id.some THEN dynamic_text(declarator.id.v) ELSE <<>>),
            IF declarator.init.type # "None"
                THEN FmtExpression(declarator.init, quote_style)
                ELSE Wrote(<<>>))

\* impl Format for VariableDeclarator
FmtVariableDeclarator(declarator, quote_style) ==
    AndThen(Wrote(IF declarator.id.some THEN dynamic_text(declarator.id.v) ELSE <<>>),
            IF declarator.init.type # "None"
                THEN AndThen(Wrote(static_text(<<" = ">>)),
                             FmtExpression(declarator.init, quote_style))
                ELSE Wrote(<<>>))

\* the loop of impl Format for VariableDeclaration, from declarator idx on
RECURSIVE FmtDeclarators(_, _, _)
FmtDeclarators(declarations, idx, quote_style) ==
    IF idx > Len(declarations) THEN Wrote(<<>>)
    ELSE AndThen(Wrote(IF idx > 1 THEN static_text(<<",">>) \o space ELSE <<>>),
         AndThen(FmtVariableDeclarator(declarations[idx], quote_style),
                 FmtDeclarators(declarations, idx + 1, quote_style)))

\* impl Format for VariableDeclaration
FmtVariableDeclaration(decl, semicolons, quote_style) ==
    AndThen(FmtDeclarators(decl.declarations, 1, quote_style),
            Wrote(IF semicolons = "Always" THEN static_text(<<";">>) ELSE <<>>))

\* the match on the statement in impl Format for Program
FmtStatement(stmt, semicolons, quote_style) ==
    IF stmt.type = "VariableDeclaration"
        THEN AndThen(Wrote(static_text(<<stmt.kind>>) \o space),
                     FmtVariableDeclaration(stmt, semicolons, quote_style))
        ELSE Wrote(TodoText)

\* a bug that writes the break before every statement
BreakBefore_Every(idx) == TRUE

\* `if idx > 0` of the loop, idx counted from 0 there and from 1 here
BreakBefore(idx) == idx > 1

\* the loop of impl Format for Program, from statement idx on
RECURSIVE FmtStatements(_, _, _, _)
FmtStatements(body, idx, semicolons, quote_style) ==
    IF idx > Len(body) THEN Wrote(<<>>)
    ELSE AndThen(Wrote(IF BreakBefore(idx) THEN hard_line_break ELSE <<>>),
         AndThen(FmtStatement(body[idx], semicolons, quote_style),
                 FmtStatements(body, idx + 1, semicolons, quote_style)))

\* impl Format for Program
FmtProgram(body, semicolons, quote_style) == FmtStatements(body, 1, semicolons, quote_style)

Text_1 == <<"1">>
Text_b == <<"b">>
Text_c == <<"c">>
Text_2 == <<"2">>
Text_3 == <<"3">>
Text_4 == <<"4">>
\* the statements a Program is made of here:
\*   call()            let a            let a, b = 1       const c = [2, call()]
\*   const s = 'a<newline>b'            let [x] = call()   var n = <a number without raw>
\*   const a = 1       const c = [2, 3, 4]
Statements ==
    { OtherNode,
      VariableDeclaration("let", <<VariableDeclarator(SomeText(Text_a), NoInit)>>),
      VariableDeclaration("let", <<VariableDeclarator(SomeText(Text_a), NoInit),
                                   VariableDeclarator(SomeText(Text_b),
                                                      NumericLiteral(SomeText(Text_1)))>>),
      VariableDeclaration("const",
          <<VariableDeclarator(SomeText(Text_a), NumericLiteral(SomeText(Text_1)))>>),
      VariableDeclaration("const",
          <<VariableDeclarator(SomeText(Text_c),
                ArrayExpression(<<NumericLiteral(SomeText(Text_2)),
                                  NumericLiteral(SomeText(Text_3)),
                                  NumericLiteral(SomeText(Text_4))>>))>>),
      VariableDeclaration("const",
          <<VariableDeclarator(SomeText(Text_a),
                ArrayExpression(<<NumericLiteral(SomeText(Text_1)), OtherNode>>))>>),
      VariableDeclaration("const",
          <<VariableDeclarator(SomeText(Text_a), StringLiteral(Text_a_nl_b))>>),
      VariableDeclaration("let", <<VariableDeclarator(NoneText, OtherNode)>>),
      VariableDeclaration("var",
          <<VariableDeclarator(SomeText(Text_a), NumericLiteral(NoneText))>>) }

\* a parsed Program and the options it is to be formatted with
Parsed(body, semicolons, quote_style) ==
    [NoProgram EXCEPT !.op = "parsed", !.body = body, !.semicolons = semicolons,
                      !.quote_style = quote_style]

\* an empty VecBuffer and a Program to format
InitProgram ==
    /\ InitDoc(EmptyHeap)
    /\ InitSoft(<<>>)
    /\ InitRecording
    /\ query = NoQuery
    /\ elements = <<>>
    /\ snapshots = <<>>
    /\ last = NoOp
    /\ option = NoOption
    /\ state = NewFormatState
    /\ printer = NoPrinter
    /\ \E body \in SeqsUpTo(Statements, MaxStatements) :
          \E semicolons \in {"Always", "AsNeeded"}, quote_style \in {"Double", "Single"} :
              program = Parsed(body, semicolons, quote_style)

\* program.fmt(f) on a Formatter over the VecBuffer
FormatProgram ==
    LET r == FmtProgram(program.body, program.semicolons, program.quote_style)
    IN  /\ program.op = "parsed"
        /\ elements' = elements \o r.out
        /\ program' = [program EXCEPT !.op = "fmt", !.ok = r.ok]
        /\ UNCHANGED <<snapshots, last, docVars, query, softVars, recVars, option, printer, state>>

NextProgram == FormatProgram

SpecProgram == InitProgram /\ [][NextProgram]_vars

HardLineBreaks == {i \in 1..Len(elements) : elements[i] = Line("Hard")}

\* the places of the elements, cut at the hard line breaks
RECURSIVE Pieces(_, _)
Pieces(seq, piece) ==
    IF seq = <<>> THEN <<piece>>
    ELSE IF Head(seq) = Line("Hard") THEN <<piece>> \o Pieces(Tail(seq), <<>>)
    ELSE Pieces(Tail(seq), Append(piece, Head(seq)))

\* C20, as it holds: a Program with n statements whose formatting returns
\* has max(n - 1, 0) hard line breaks, an empty Program none; the breaks cut
\* the output into the n statements, each written as it is written alone,
\* so that none stands before the first or after the last statement.
Thm_C20_BreakBetweenStatements ==
    (program.op = "fmt" /\ program.ok) =>
        LET n == Len(program.body)
        IN  /\ Cardinality(HardLineBreaks) = IF n = 0 THEN 0 ELSE n - 1
            /\ n = 0 => elements = <<>>
            /\ n > 0 =>
                /\ Len(Pieces(elements, <<>>)) = n
                /\ \A k \in 1..n :
                      /\ Pieces(elements, <<>>)[k] # <<>>
                      /\ Pieces(elements, <<>>)[k] =
                            FmtStatement(program.body[k], program.semicolons,
                                         program.quote_style).out

\* three statements, one of them with a newline inside a string
Wit_C20_ThreeStatements ==
    /\ program.op = "fmt" /\ program.ok
    /\ Len(program.body) = 3
    /\ Cardinality(HardLineBreaks) = 2
    /\ \E i \in 1..Len(elements) :
          elements[i].k = "DynamicText" /\ Contains(elements[i].text, "\n")

\* C20 as stated: n statements give exactly n - 1 hard line breaks.
Orig_C20_BreaksAreStatementsLessOne ==
    (program.op = "fmt" /\ program.ok) =>
        Cardinality(HardLineBreaks) = Len(program.body) - 1

\* the declarators from the k-th on as the claim lays them out: the name,
\* then " = " and the initializer if there is one, "," and a space between two
RECURSIVE DeclaratorsLaidOut(_, _, _)
DeclaratorsLaidOut(declarations, k, quote_style) ==
    IF k > Len(declarations) THEN <<>>
    ELSE (IF k > 1 THEN <<StaticText(<<",">>), Space>> ELSE <<>>)
         \o (IF declarations[k].id.some THEN <<DynamicText(declarations[k].id.v)>> ELSE <<>>)
         \o (IF declarations[k].init.type # "None"
                THEN <<StaticText(<<" = ">>)>>
                     \o FmtExpression(declarations[k].init, quote_style).out
                ELSE <<>>)
         \o DeclaratorsLaidOut(declarations, k + 1, quote_style)

ConstAIs1 ==
    VariableDeclaration("const",
        <<VariableDeclarator(SomeText(Text_a), NumericLiteral(SomeText(Text_1)))>>)

\* C21, as it holds: a variable declaration is written as its kind and a
\* space, its declarators in source order with text(",") and a space between
\* two, each initializer after text(" = "), and text(";") at the end exactly
\* under semicolons = Always.  For `const a=1` the elements are
\* text("const"), space, dynamic_text("a"), text(" = "), dynamic_text("1"),
\* text(";"): the name and the number are DynamicText elements.
Thm_C21_DeclarationLayout ==
    (program.op = "fmt" /\ program.ok) =>
        /\ \A k \in 1..Len(program.body) :
              program.body[k].type = "VariableDeclaration" =>
                  Pieces(elements, <<>>)[k] =
                      <<StaticText(<<program.body[k].kind>>), Space>>
                      \o DeclaratorsLaidOut(program.body[k].declarations, 1,
                                            program.quote_style)
                      \o (IF program.semicolons = "Always"
                              THEN <<StaticText(<<";">>)>> ELSE <<>>)
        /\ (program.body = <<ConstAIs1>> /\ program.semicolons = "Always") =>
              elements = <<StaticText(<<"const">>), Space, DynamicText(Text_a),
                           StaticText(<<" = ">>), DynamicText(Text_1),
                           StaticText(<<";">>)>>

\* `let a, b = 1` formatted without semicolons
Wit_C21_TwoDeclaratorsNoSemicolon ==
    /\ program.op = "fmt" /\ program.ok
    /\ program.semicolons = "AsNeeded"
    /\ \E k \in 1..Len(program.body) :
          /\ program.body[k].type = "VariableDeclaration"
          /\ Len(program.body[k].declarations) = 2
    /\ elements = <<StaticText(<<"let">>), Space, DynamicText(Text_a),
                    StaticText(<<",">>), Space, DynamicText(Text_b),
                    StaticText(<<" = ">>), DynamicText(Text_1)>>

\* C21 as stated: for `const a=1` the IR is text("const"), space(), text("a"),
\* text(" = "), text("1"), text(";").
Orig_C21_ConstIRIsAllText ==
    (program.op = "fmt" /\ program.ok
        /\ program.body = <<ConstAIs1>> /\ program.semicolons = "Always") =>
        elements = <<StaticText(<<"const">>), Space, StaticText(Text_a),
                     StaticText(<<" = ">>), StaticText(Text_1), StaticText(<<";">>)>>

ConstCIsArray ==
    VariableDeclaration("const",
        <<VariableDeclarator(SomeText(Text_c),
              ArrayExpression(<<NumericLiteral(SomeText(Text_2)),
                                NumericLiteral(SomeText(Text_3)),
                                NumericLiteral(SomeText(Text_4))>>))>>)

\* C22: `const c=[2,3,4]` is written with the array as a group that can
\* break: a StartGroup before the "[", a line break after it that the
\* printer can take at line_width 8, and a trailing comma before the "]".
Claim_C22_ArrayIsGroupThatBreaks ==
    (program.op = "fmt" /\ program.ok /\ program.body = <<ConstCIsArray>>) =>
        /\ \E i \in 1..Len(elements) : IsTag(elements[i], "StartGroup")
        /\ \E i \in 1..Len(elements) : elements[i].k = "Line"

\* what the code writes for `const c=[2,3,4]`: texts and spaces only, all of
\* them on one line at every width
Holds_C22_ArrayIsOneLine ==
    (program.op = "fmt" /\ program.ok /\ program.body = <<ConstCIsArray>>
        /\ program.semicolons = "Always") =>
        elements = <<StaticText(<<"const">>), Space, DynamicText(Text_c),
                     StaticText(<<" = ">>), StaticText(<<"[">>),
                     DynamicText(Text_2), StaticText(<<",">>), Space,
                     DynamicText(Text_3), StaticText(<<",">>), Space,
                     DynamicText(Text_4), StaticText(<<"]">>), StaticText(<<";">>)>>

(***************************************************************************)
(* The Printer.  printer.rs is not among the sources: the algorithm is     *)
(* the one of section 4.5 of the specification.                            *)
(*                                                                         *)
(* A document is d = [sl, vs]: sl[id] is the content of Interned(id),      *)
(* vs[b] the places in sl of the variants of BestFitting(b), most flat     *)
(* first.  The state threaded through the main loop:                       *)
(*   out      buffer, one entry per character                              *)
(*   col      generated_column                                             *)
(*   pending  pending_space                                                *)
(*   modes    group_modes_stack, each with the group it belongs to         *)
(*   groups   the groups met so far: mode of the tag, column and pending   *)
(*            space where the group starts, its content, the mode it was   *)
(*            resolved to, and the part of out it was printed to           *)
(*   picks    for each BestFitting met, the variant printed and its mode   *)
(***************************************************************************)
PushMode(mode) == Element("PushMode", "-", mode, NoText, 0)
PopMode == Element("PopMode", "-", "-", NoText, 0)

IsText(element) == element.k \in {"StaticText", "DynamicText", "LocatedTokenText"}

\* the place in queue of the `end` that closes a `start` opened before the
\* queue begins; past the end of the queue if there is none
MatchingEnd(queue, start, end) ==
    LET closing == {n \in 1..Len(queue) : TagDepth(queue, start, end, n) = -1}
    IN  IF closing = {} THEN Len(queue) + 1
        ELSE CHOOSE n \in closing : \A m \in closing : n <= m

\* the queue after the content that is skipped, its End included
AfterMatchingEnd(queue, start, end) ==
    SubSeq(queue, MatchingEnd(queue, start, end) + 1, Len(queue))

\* the content up to the End, the End left out
UpToMatchingEnd(queue, start, end) ==
    SubSeq(queue, 1, MatchingEnd(queue, start, end) - 1)

\* Measurement: the column-only walk over the flat projection.  Soft is
\* nothing, SoftOrSpace a space, a hard line an overflow; ConditionalContent
\* of mode Flat is seen and of mode Expanded is not; a BestFitting is its
\* most flat variant; inner groups are flat.
RECURSIVE Fits(_, _, _, _, _)
Fits(d, queue, col, pending, width) ==
    IF col > width THEN FALSE
    ELSE IF queue = <<>> THEN TRUE
    ELSE LET element == Head(queue)
             rest == Tail(queue)
         IN  CASE IsText(element) ->
                    /\ ~Contains(element.text, "\n")
                    /\ Fits(d, rest, col + (IF pending THEN 1 ELSE 0) + Len(element.text),
                            FALSE, width)
               [] element.k = "Space" -> Fits(d, rest, col, TRUE, width)
               [] element.k = "Line" ->
                    CASE element.mode = "Soft" -> Fits(d, rest, col, pending, width)
                      [] element.mode = "SoftOrSpace" -> Fits(d, rest, col, TRUE, width)
                      [] OTHER -> FALSE
               [] IsTag(element, "StartConditionalContent") /\ element.mode = "Expanded" ->
                    Fits(d, AfterMatchingEnd(rest, "StartConditionalContent",
                                             "EndConditionalContent"),
                         col, pending, width)
               [] element.k = "Interned" ->
                    Fits(d, d.sl[element.id] \o rest, col, pending, width)
               [] element.k = "BestFitting" ->
                    Fits(d, d.sl[d.vs[element.id][1]] \o rest, col, pending, width)
               [] OTHER -> Fits(d, rest, col, pending, width)

\* a bug that measures against the whole width and not the columns left
GroupFits_FromLineStart(d, content, st, width) ==
    Fits(d, content, 0, st.pending, width)

\* does the flat projection of content fit in print_width - current_column
GroupFits(d, content, st, width) == Fits(d, content, st.col, st.pending, width)

\* a newline: the column is reset and a pending space is dropped
PrintNewline(st) ==
    [st EXCEPT !.out = Append(st.out, "\n"), !.col = 0, !.pending = FALSE]

\* a text: the pending space is flushed before it
PrintText(st, text) ==
    LET flushed == IF st.pending THEN Append(st.out, " ") ELSE st.out
        newlines == {n \in DOMAIN text : text[n] = "\n"}
    IN  [st EXCEPT !.out = flushed \o text,
                   !.pending = FALSE,
                   !.col = IF newlines = {}
                           THEN st.col + (IF st.pending THEN 1 ELSE 0) + Len(text)
                           ELSE Cardinality({n \in DOMAIN text :
                                                \A m \in newlines : n > m})]

\* the mode of the innermost group; the document itself is printed expanded
CurrentMode(st) == IF st.modes = <<>> THEN "Expanded" ELSE Last(st.modes).mode

\* a bug that takes the last variant only if it fits
PickVariant_LastMustFit(d, b, st, width) ==
    LET fitting == {v \in DOMAIN d.vs[b] : GroupFits(d, d.sl[d.vs[b][v]], st, width)}
    IN  IF fitting = {} THEN 0
        ELSE CHOOSE v \in fitting : \A w \in fitting : v <= w

\* BestFitting: the first variant but the last that fits, else the last
PickVariant(d, b, st, width) ==
    LET fitting == {v \in 1..(Len(d.vs[b]) - 1) :
                        GroupFits(d, d.sl[d.vs[b][v]], st, width)}
    IN  IF fitting = {} THEN Len(d.vs[b])
        ELSE CHOOSE v \in fitting : \A w \in fitting : v <= w

\* the main loop of the printer, over the elements still to print
RECURSIVE PrintElements(_, _, _, _)
PrintElements(d, queue, st, width) ==
    IF queue = <<>> THEN st
    ELSE
    LET element == Head(queue)
        rest == Tail(queue)
    IN  CASE IsText(element) -> PrintElements(d, rest, PrintText(st, element.text), width)
          [] element.k = "Space" ->
                PrintElements(d, rest, [st EXCEPT !.pending = TRUE], width)
          [] element.k = "Line" ->
                IF CurrentMode(st) = "Flat" /\ element.mode = "Soft"
                    THEN PrintElements(d, rest, st, width)
                ELSE IF CurrentMode(st) = "Flat" /\ element.mode = "SoftOrSpace"
                    THEN PrintElements(d, rest, [st EXCEPT !.pending = TRUE], width)
                ELSE IF element.mode = "Empty"
                    THEN PrintElements(d, rest, PrintNewline(PrintNewline(st)), width)
                ELSE PrintElements(d, rest, PrintNewline(st), width)
          [] IsTag(element, "StartGroup") ->
                LET content == UpToMatchingEnd(rest, "StartGroup", "EndGroup")
                    resolved == IF element.mode = "Propagated" THEN "Expanded"
                                ELSE IF GroupFits(d, content, st, width) THEN "Flat"
                                ELSE "Expanded"
                    g == [mode |-> element.mode, col |-> st.col, pending |-> st.pending,
                          content |-> content, resolved |-> resolved,
                          from |-> Len(st.out), to |-> Len(st.out)]
                IN  PrintElements(d, rest,
                        [st EXCEPT !.groups = Append(st.groups, g),
                                   !.modes = Append(st.modes,
                                                [mode |-> resolved,
                                                 g |-> Len(st.groups) + 1])],
                        width)
          [] IsTag(element, "EndGroup") \/ element.k = "PopMode" ->
                IF st.modes = <<>> THEN PrintElements(d, rest, st, width)
                ELSE LET g == Last(st.modes).g
                     IN  PrintElements(d, rest,
                            [st EXCEPT !.modes = Front(st.modes),
                                       !.groups = IF g = 0 THEN st.groups
                                                  ELSE [st.groups EXCEPT
                                                            ![g].to = Len(st.out)]],
                            width)
          [] element.k = "PushMode" ->
                PrintElements(d, rest,
                    [st EXCEPT !.modes = Append(st.modes, [mode |-> element.mode, g |-> 0])],
                    width)
          [] IsTag(element, "StartConditionalContent") ->
                IF CurrentMode(st) = element.mode
                    THEN PrintElements(d, rest, st, width)
                    ELSE PrintElements(d,
                            AfterMatchingEnd(rest, "StartConditionalContent",
                                             "EndConditionalContent"),
                            st, width)
          [] element.k = "Interned" ->
                PrintElements(d, d.sl[element.id] \o rest, st, width)
          [] element.k = "BestFitting" ->
                LET v == PickVariant(d, element.id, st, width)
                    mode == IF v = Len(d.vs[element.id]) THEN "Expanded" ELSE "Flat"
                IN  IF v = 0
                    THEN [st EXCEPT !.failed = TRUE]
                    ELSE PrintElements(d,
                            <<PushMode(mode)>> \o d.sl[d.vs[element.id][v]]
                                \o <<PopMode>> \o rest,
                            [st EXCEPT !.picks = Append(st.picks,
                                            [b |-> element.id, v |-> v, mode |-> mode,
                                             col |-> st.col, pending |-> st.pending,
                                             from |-> Len(st.out)])],
                            width)
          [] OTHER -> PrintElements(d, rest, st, width)

NewPrinter ==
    [out |-> <<>>, col |-> 0, pending |-> FALSE, modes |-> <<>>, groups |-> <<>>,
     picks |-> <<>>, failed |-> FALSE]

\* Printer::new(options).print(&document)
PrintDoc(d, root, width) == PrintElements(d, root, NewPrinter, width)

(***************************************************************************)
(* The formatting session: format (base_formatter/mod.rs) writes the       *)
(* arguments to a VecBuffer, makes the Document and runs the pre-pass;     *)
(* Formatted::print hands the Document to the Printer.                     *)
(***************************************************************************)
MaxPrintLen == 5            \* elements written in a session that is printed
MaxPrintInternedLen == 1    \* elements of an Interned of such a session
MaxPrintVariantLen == 3     \* elements of a variant of such a session
MaxPrintBestFittingLen == 2 \* elements written around a BestFitting

PrintWidths == {1, 2, 3, 80}

\* the document as the Printer sees it
AsDocument(sl) == [sl |-> sl, vs |-> [b \in 1..NumBestFitting |-> Variants(b)]]

\* a bug that hands the Document over as it was written
PrePass_Skipped(sl) ==
    [sl |-> sl, checked |-> <<>>, walked |-> [id \in InternedIds |-> 0], runs |-> 0]

\* document.propagate_expand() of format
PrePass(sl) ==
    LET r == DocumentPropagateExpand(sl)
    IN  [sl |-> r.sl, checked |-> r.checked, walked |-> r.walked, runs |-> 1]

\* the arguments written to the VecBuffer, through a RemoveSoftLinesBuffer
\* if the session has one around it
WriteArguments(arguments, filter) ==
    IF filter THEN WriteEach(SoftState, arguments, elements)
    ELSE [st |-> SoftState, inner |-> elements \o arguments]

\* format(context, arguments)
FormatDocument ==
    /\ printer.op = "none"
    /\ LET w == WriteArguments(printer.arguments, printer.filter)
       IN  /\ elements' = w.inner
           /\ pool' = w.st.pool
           /\ interned_cache' = w.st.cache
           /\ conditional_content_stack' = w.st.stack
           /\ cleanings' = w.st.cleanings
           /\ written' = IF printer.filter THEN written \o printer.arguments ELSE written
    /\ LET document == [slices EXCEPT ![0] = elements']
           r == PrePass(document)
       IN  /\ slices0' = document
           /\ prev' = document
           /\ slices' = r.sl
           /\ checked' = r.checked
           /\ walked' = r.walked
           /\ runs' = runs + r.runs
    /\ printer' = [printer EXCEPT !.op = "formatted"]
    /\ UNCHANGED <<query, snapshots, last, recVars, option, program, state>>

\* Formatted::print
PrintFormatted ==
    /\ printer.op \in {"formatted", "printed"}
    /\ LET st == PrintDoc(AsDocument(slices), slices[0], printer.width)
       IN  printer' = [printer EXCEPT !.op = "printed", !.out = st.out,
                                      !.groups = st.groups, !.picks = st.picks,
                                      !.failed = st.failed]
    /\ UNCHANGED <<docVars, query, bufVars, softVars, recVars, option, program, state>>

NextPrint == FormatDocument \/ PrintFormatted

\* a session that is about to write root, with the Interned and the variants
\* its elements hold
InitSession(root, ic, vc, width) ==
    /\ InitDoc(Heap(<<>>, ic, vc))
    /\ InitSoft(<<>>)
    /\ InitRecording
    /\ query = NoQuery
    /\ elements = <<>>
    /\ snapshots = <<>>
    /\ last = NoOp
    /\ option = NoOption
    /\ state = NewFormatState
    /\ program = NoProgram
    /\ printer = [NoPrinter EXCEPT !.arguments = root, !.width = width]

Range(seq) == {seq[n] : n \in DOMAIN seq}

PrintLeaves == {StaticText(Text_a), Line("Soft"), Line("SoftOrSpace"), Line("Hard")}

\* groups, lines and texts, and Interned of lines and texts
GroupRoots ==
    {seq \in SeqsUpTo(PrintLeaves \cup {StartGroup("Flat"), EndGroup} \cup InternedRefs,
                      MaxPrintLen) : BalancedGroups(seq)}

InitPrintGroups ==
    \E root \in GroupRoots :
        \E ic \in [InternedIds -> SeqsUpTo(PrintLeaves, MaxPrintInternedLen)] :
            \E width \in PrintWidths :
                /\ \A id \in InternedIds : Interned(id) \notin Range(root) => ic[id] = <<>>
                /\ InitSession(root, ic, [s \in VariantSlices |-> <<>>], width)

SpecPrintGroups == InitPrintGroups /\ [][NextPrint]_vars

\* content with its Interned replaced by what they hold
RECURSIVE Inlined(_, _)
Inlined(sl, seq) ==
    IF seq = <<>> THEN <<>>
    ELSE (IF Head(seq).k = "Interned" THEN Inlined(sl, sl[Head(seq).id])
          ELSE <<Head(seq)>>) \o Inlined(sl, Tail(seq))

\* the columns the flat projection of seq takes: those of its texts, and one
\* for each text that comes after a space (a pending one, or a SoftOrSpace
\* with no text between it and the text)
FlatColumns(seq, pending) ==
    LET texts == {n \in DOMAIN seq : IsText(seq[n])}
        spaces == {n \in DOMAIN seq : seq[n] \in {Space, Line("SoftOrSpace")}}
        spaced == {n \in texts :
                      \/ \E m \in spaces : m < n /\ \A t \in texts : ~(m < t /\ t < n)
                      \/ pending /\ \A t \in texts : t >= n}
        RECURSIVE Sum(_)
        Sum(set) == IF set = {} THEN 0
                    ELSE LET n == CHOOSE n \in set : TRUE
                         IN  Len(seq[n].text) + Sum(set \ {n})
    IN  Sum(texts) + Cardinality(spaced)

HasHardBreak(seq) ==
    \E n \in DOMAIN seq :
        \/ seq[n].k = "Line" /\ seq[n].mode \in {"Hard", "Empty", "Literal"}
        \/ IsText(seq[n]) /\ Contains(seq[n].text, "\n")

GroupWithSoftOrSpace ==
    <<StartGroup("Flat"), StaticText(Text_a), Line("SoftOrSpace"), StaticText(Text_a),
      EndGroup>>

\* C23: a group that holds no hard break and is not marked Propagated is
\* printed flat exactly when its flat projection fits in the columns left
\* on the line, and then nothing of it is a newline; otherwise it is
\* printed expanded, and a Soft or SoftOrSpace that is directly in it is a
\* newline.  group([text, soft_line_break_or_space, text]) is `a a` at
\* width 80 and `a`, newline, `a` at width 2.
Thm_C23_GroupFlatIffFits ==
    printer.op = "printed" =>
        /\ \A n \in DOMAIN printer.groups :
              LET g == printer.groups[n]
                  content == Inlined(slices, g.content)
                  printed == SubSeq(printer.out, g.from + 1, g.to)
              IN  (g.mode # "Propagated" /\ ~HasHardBreak(content)) =>
                      /\ g.resolved = "Flat" <=>
                            g.col + FlatColumns(content, g.pending) <= printer.width
                      /\ g.resolved = "Flat" =>
                            /\ "\n" \notin Range(printed)
                            /\ Len(printed) = FlatColumns(content, g.pending)
                      /\ (g.resolved = "Expanded" /\ g.content # <<>>
                            /\ Head(g.content) \in {Line("Soft"), Line("SoftOrSpace")}) =>
                            (printed # <<>> /\ Head(printed) = "\n")
        /\ printer.arguments = GroupWithSoftOrSpace =>
              /\ printer.width = 80 => printer.out = <<"a", " ", "a">>
              /\ printer.width = 2 => printer.out = <<"a", "\n", "a">>

\* a group after a text, printed expanded at width 1 though it would fit on
\* a line of its own
Wit_C23_ExpandedForTheColumnsLeft ==
    /\ printer.op = "printed"
    /\ printer.width = 1
    /\ printer.arguments = <<StaticText(Text_a), StartGroup("Flat"), Line("Soft"),
                             StaticText(Text_a), EndGroup>>
    /\ printer.out = <<"a", "\n", "a">>

VariantLeaves == {StaticText(Text_a), Line("SoftOrSpace"), Line("Hard")}

\* a BestFitting with texts before and after it
BestFittingRoots ==
    {seq \in SeqsUpTo({StaticText(Text_a)} \cup BestFittingRefs, MaxPrintBestFittingLen + 1) :
        /\ OneOfEach(seq)
        /\ \A b \in 1..NumBestFitting : BestFitting(b) \in Range(seq)}

InitPrintBestFitting ==
    \E root \in BestFittingRoots :
        \E vc \in [VariantSlices -> SeqsUpTo(VariantLeaves, MaxPrintVariantLen)] :
            \E width \in PrintWidths :
                InitSession(root, [id \in InternedIds |-> <<>>], vc, width)

SpecPrintBestFitting == InitPrintBestFitting /\ [][NextPrint]_vars

\* the flat projection of the variant fits in the columns left
VariantFits(pick, v) ==
    LET content == slices[Variants(pick.b)[v]]
    IN  /\ ~HasHardBreak(content)
        /\ pick.col + FlatColumns(content, pick.pending) <= printer.width

Newlines(out) == Cardinality({n \in DOMAIN out : out[n] = "\n"})

\* C24: the variant printed for a BestFitting is the first, from the most
\* flat on, whose flat projection fits in the columns left, and it is
\* printed flat if it is not the last; when none fits the last variant is
\* printed, expanded as it is, its SoftOrSpace as a newline; the printer
\* does not fail.
Thm_C24_FirstFittingVariantElseLast ==
    printer.op = "printed" =>
        /\ ~printer.failed
        /\ Len(printer.picks) = Cardinality({n \in DOMAIN slices[0] :
                                                slices[0][n].k = "BestFitting"})
        /\ \A n \in DOMAIN printer.picks :
              LET pick == printer.picks[n]
                  fitting == {v \in 1..NumVariants : VariantFits(pick, v)}
              IN  /\ fitting # {} => pick.v \in fitting /\ \A v \in fitting : pick.v <= v
                  /\ fitting = {} => pick.v = NumVariants /\ pick.mode = "Expanded"
                  /\ pick.v < NumVariants => pick.mode = "Flat"
        /\ (slices[0] = <<BestFitting(1)>> /\ printer.picks # <<>>) =>
              LET pick == printer.picks[1]
                  content == slices[Variants(1)[pick.v]]
              IN  /\ pick.mode = "Flat" => Newlines(printer.out) = 0
                  /\ pick.mode = "Expanded" =>
                        Newlines(printer.out) =
                            Cardinality({n \in DOMAIN content : content[n].k = "Line"})

\* no variant fits at width 1: the last one is printed with its SoftOrSpace
\* as a newline
Wit_C24_NoVariantFits ==
    /\ printer.op = "printed"
    /\ printer.width = 1
    /\ slices[0] = <<BestFitting(1)>>
    /\ slices[Variants(1)[1]] = <<StaticText(Text_a), StaticText(Text_a)>>
    /\ slices[Variants(1)[NumVariants]] =
          <<StaticText(Text_a), Line("SoftOrSpace"), StaticText(Text_a)>>
    /\ printer.out = <<"a", "\n", "a">>

MaxFilterLen == 5       \* elements of a group written through a RemoveSoftLinesBuffer
UnboundedWidth == 1000  \* a print width no document of the bounds reaches

FilterLeaves ==
    PrintLeaves \cup {StartConditionalContent("Flat"), StartConditionalContent("Expanded"),
                      EndConditionalContent}

\* one group, and in it lines, texts and conditional content
FilterRoots ==
    {<<StartGroup("Flat")>> \o seq \o <<EndGroup>> :
        seq \in {c \in SeqsUpTo(FilterLeaves, MaxFilterLen) :
                    Balanced(c, "StartConditionalContent", "EndConditionalContent")}}

\* a session that writes its arguments through a RemoveSoftLinesBuffer
InitFilterPrint ==
    \E root \in FilterRoots :
        /\ InitDoc(EmptyHeap)
        /\ InitSoft(<<>>)
        /\ InitRecording
        /\ query = NoQuery
        /\ elements = <<>>
        /\ snapshots = <<>>
        /\ last = NoOp
        /\ option = NoOption
        /\ state = NewFormatState
        /\ program = NoProgram
        /\ printer = [NoPrinter EXCEPT !.arguments = root, !.filter = TRUE,
                                       !.width = UnboundedWidth]

SpecFilterPrint == InitFilterPrint /\ [][NextPrint]_vars

\* what the session prints if the same arguments go to the VecBuffer as
\* they are
PrintedUnfiltered ==
    LET document == PrePass([EmptyHeap EXCEPT ![0] = printer.arguments]).sl
    IN  PrintDoc(AsDocument(document), document[0], printer.width).out

\* C25: at unbounded width a document prints the same text whether it is
\* written through RemoveSoftLinesBuffer or not, also when a group holds a
\* hard line break together with ConditionalContent of mode Expanded.
Claim_C25_FilterKeepsUnboundedPrint ==
    (printer.op = "printed" /\ printer.filter) => printer.out = PrintedUnfiltered

\* some ConditionalContent starts inside a ConditionalContent of mode Expanded
NestedInExpanded(seq) ==
    \E i, j \in DOMAIN seq :
        /\ i < j
        /\ seq[i] = StartConditionalContent("Expanded")
        /\ IsTag(seq[j], "StartConditionalContent")
        /\ j < i + MatchingEnd(SubSeq(seq, i + 1, Len(seq)),
                               "StartConditionalContent", "EndConditionalContent")

\* the texts are the same where the group holds no hard line break and no
\* ConditionalContent lies in one of mode Expanded
Holds_C25_WithoutHardBreak ==
    (printer.op = "printed" /\ printer.filter
        /\ ~HasHardBreak(printer.arguments) /\ ~NestedInExpanded(printer.arguments)) =>
        printer.out = PrintedUnfiltered

\* no group of the document that is still Flat holds a hard line break
NoFlatGroupWithHardBreak ==
    \A i \in DOMAIN slices[0] :
        slices[0][i] = StartGroup("Flat") =>
            ~HasHardBreak(Inlined(slices,
                UpToMatchingEnd(SubSeq(slices[0], i + 1, Len(slices[0])),
                                "StartGroup", "EndGroup")))

MaxGroupIds == 3        \* group ids one FormatState issues

\* UniqueGroupIdBuilder::group_id: the ids are handed out by counting up
NextGroupId(id) == id + 1

\* f.group_id(debug_name) = state.group_id_builder.group_id(debug_name); an
\* entry of issued also says how many snapshots of the buffer were not yet
\* restored when the id was issued, and whether the call before was a restore
GroupId ==
    /\ last.ok
    /\ Len(state.issued) < MaxGroupIds
    /\ state' = [next_id |-> NextGroupId(state.next_id),
                 issued |-> Append(state.issued,
                                   [id |-> state.next_id,
                                    open |-> Len(snapshots),
                                    restored |-> last.op = "restore_snapshot"])]
    /\ last' = [NoOp EXCEPT !.op = "group_id"]
    /\ UNCHANGED <<elements, snapshots, docVars, query, softVars, recVars,
                   option, program, printer>>

NextState ==
    \/ NextBuffer
    \/ GroupId

SpecState == InitBuffer /\ [][NextState]_vars

\* C27: snapshot and restore_snapshot leave the FormatState as it is, and the
\* group ids one FormatState issues are increasing, hence pairwise distinct
\* and never issued twice, whatever snapshots were taken or restored between.
Thm_C27_GroupIdsOutliveRestore ==
    /\ [](\A i, j \in DOMAIN state.issued :
              i < j => state.issued[i].id < state.issued[j].id)
    /\ [](\A i \in DOMAIN state.issued : state.issued[i].id < state.next_id)
    /\ [][last'.op \in {"snapshot", "restore_snapshot"} => state' = state]_vars

\* an id was issued after a snapshot, the snapshot was restored, and the
\* next id was issued right after the restore
Wit_C27_IssuedAfterRestore ==
    /\ Len(state.issued) >= 2
    /\ \E i \in DOMAIN state.issued :
          /\ i < Len(state.issued)
          /\ state.issued[i].open = 1
          /\ state.issued[i + 1].open = 0
          /\ state.issued[i + 1].restored

(***************************************************************************)
(* RemoveSoftLinesBuffer: what is forwarded                                *)
(***************************************************************************)
\* a is b with some of its elements left out
RECURSIVE IsSubsequence(_, _)
IsSubsequence(a, b) ==
    IF a = <<>> THEN TRUE
    ELSE IF b = <<>> THEN FALSE
    ELSE IF Head(a) = Head(b) THEN IsSubsequence(Tail(a), Tail(b))
    ELSE IsSubsequence(a, Tail(b))

\* no conditional-content tag in seq, nor in the Interned it holds
RECURSIVE TagFree(_, _)
TagFree(p, seq) ==
    \A n \in DOMAIN seq :
        /\ ~IsConditionalContentTag(seq[n])
        /\ seq[n].k = "Interned" => TagFree(p, p[seq[n].id])

\* C28: the inner buffer never gets a conditional-content tag, at top level
\* or in an Interned; and what was written outside every Expanded scope (in
\* a Flat scope or in none) is forwarded in the order written, without the
\* tags around it, a Space standing for a Line(SoftOrSpace) (each Interned
\* and each variant closing the scopes it opens).
Thm_C28_OutsideExpandedForwarded ==
    /\ TagFree(pool, elements)
    /\ (\A n \in 1..NumSoftEntries : ScopesBalanced(pool[n])) =>
          IsSubsequence(WithoutSoftLines(Visible(InlineAll(pool, written), <<>>, FALSE)),
                        InlineAll(pool, elements))

\* a Flat scope with a Line(SoftOrSpace) and a hard line was written, and
\* the inner buffer holds the Space and the hard line, in that order
Wit_C28_FlatScopeUnwrapped ==
    /\ written = <<StartConditionalContent("Flat"), Line("SoftOrSpace"), Line("Hard"),
                   EndConditionalContent>>
    /\ elements = <<Space, Line("Hard")>>

(***************************************************************************)
(* RemoveSoftLinesBuffer::snapshot and restore_snapshot                    *)
(***************************************************************************)
MaxSnapshotPoolWork == 0    \* elements in the Interned and variants given to a
                            \* RemoveSoftLinesBuffer whose snapshots are taken
MaxSoftSnapshots == 1       \* snapshots of it not yet restored

InitSoftSnapshots ==
    /\ InitDoc(EmptyHeap)
    /\ query = NoQuery
    /\ elements = <<>>
    /\ snapshots = <<>>
    /\ last = NoOp
    /\ InitRecording
    /\ InitIdle
    /\ \E p \in SoftPools : PoolWork(p, 1) <= MaxSnapshotPoolWork /\ InitSoft(p)

\* RemoveSoftLinesBuffer::snapshot: self.inner.snapshot().  The snapshot is
\* the position; beside it the model notes what the inner buffer held, what
\* the conditional_content_stack was and how much had been written
SoftSnapshot ==
    /\ last.ok
    /\ Len(snapshots) < MaxSoftSnapshots
    /\ snapshots' = Append(snapshots,
                           [position |-> SnapshotPosition(elements),
                            taken |-> elements,
                            clean |-> TRUE,
                            stack |-> conditional_content_stack,
                            at |-> Len(written)])
    /\ last' = [NoOp EXCEPT !.op = "snapshot"]
    /\ UNCHANGED <<elements, docVars, query, softVars, recVars, idleVars>>

\* RemoveSoftLinesBuffer::restore_snapshot: self.inner.restore_snapshot(snapshot),
\* which has the elements of the inner buffer only
SoftRestoreSnapshot(n) ==
    /\ last.ok
    /\ n \in DOMAIN snapshots
    /\ LET snapshot == snapshots[n]
           position == snapshot.position
       IN  /\ last' = [op |-> "restore_snapshot",
                       ok |-> RestoreAccepted(Len(elements), position),
                       position |-> position,
                       taken |-> snapshot.taken,
                       clean |-> snapshot.clean,
                       len |-> Len(elements),
                       newest |-> n = Len(snapshots),
                       before |-> elements,
                       stack |-> snapshot.stack,
                       at |-> Len(written)]
           /\ elements' = IF RestoreAccepted(Len(elements), position)
                          THEN RestoredElements(elements, position)
                          ELSE elements
    /\ snapshots' = AfterRestore(Without(snapshots, n))
    /\ UNCHANGED <<docVars, query, softVars, recVars, idleVars>>

\* a write, after a call that returned
SoftWriteNext ==
    /\ last.ok
    /\ NextSoftLines

NextSoftSnapshots ==
    \/ SoftWriteNext
    \/ SoftSnapshot
    \/ \E n \in DOMAIN snapshots : SoftRestoreSnapshot(n)

SpecSoftSnapshots == InitSoftSnapshots /\ [][NextSoftSnapshots]_vars

\* C29: a restore that returns leaves the conditional_content_stack as it
\* was when the snapshot was taken; and a hard line written right after the
\* restore of a snapshot taken outside every scope reaches the inner buffer.
Claim_C29_RestoreRestoresFilter ==
    [][/\ (Len(snapshots') < Len(snapshots) /\ last'.ok) =>
              conditional_content_stack' = last'.stack
       /\ (/\ last.op = "restore_snapshot"
           /\ last.stack = <<>>
           /\ last.at = Len(written)
           /\ written' = Append(written, Line("Hard"))) =>
              elements' = Append(elements, Line("Hard"))]_vars

\* what the code does: a restore leaves the conditional_content_stack as it
\* is at the restore, and the inner buffer with what it held at the snapshot
\* when nothing but writes came between
Holds_C29_RestoreKeepsStack ==
    [][(Len(snapshots') < Len(snapshots) /\ last'.ok) =>
          /\ conditional_content_stack' = conditional_content_stack
          /\ last'.clean => elements' = last'.taken]_vars

(***************************************************************************)
(* RemoveSoftLinesBuffer: an Interned against its content                  *)
(***************************************************************************)
MaxWrappedWrites == 2    \* elements written to a RemoveSoftLinesBuffer that is
                         \* given Interned of up to MaxSoftLen elements

\* soft_lines_buffer.write_element(element), for the first few elements
SoftWriteWrapped(element) ==
    /\ Len(written) < MaxWrappedWrites
    /\ LET r == SoftWriteElement(SoftState, element, elements)
       IN  /\ pool' = r.st.pool
           /\ interned_cache' = r.st.cache
           /\ conditional_content_stack' = r.st.stack
           /\ cleanings' = r.st.cleanings
           /\ elements' = r.inner
    /\ written' = Append(written, element)
    /\ UNCHANGED <<docVars, query, snapshots, last, recVars, idleVars>>

NextSoftWrapped == \E element \in SoftLeaves \cup SoftRefs : SoftWriteWrapped(element)

SpecSoftWrapped == InitSoftLines /\ [][NextSoftWrapped]_vars

\* writing Interned(id) leaves the inner buffer, Interned inlined, and the
\* conditional_content_stack as writing the elements of its content one
\* after the other does
WrittenAsItsContent(id) ==
    LET r == WriteEach(SoftState, pool[id], elements)
    IN  /\ InlineAll(pool', elements') = InlineAll(r.st.pool, r.inner)
        /\ conditional_content_stack' = r.st.stack

AllScopesBalanced == \A n \in 1..NumSoftEntries : ScopesBalanced(pool[n])

\* C30: an Interned, nested ones included, is filtered to what its content
\* written element by element is filtered to (each Interned and each
\* variant closing the scopes it opens).
Claim_C30_InternedAsElementByElement ==
    [][\A id \in SoftInternedIds :
          (written' = Append(written, Interned(id)) /\ AllScopesBalanced) =>
              WrittenAsItsContent(id)]_vars

\* what the code does: the two agree where the innermost open scope is not
\* an Expanded one; in an Expanded scope the Interned is dropped whole,
\* while of its elements those in a Flat scope of their own get through
Holds_C30_OutsideExpandedScope ==
    [][\A id \in SoftInternedIds :
          (written' = Append(written, Interned(id)) /\ AllScopesBalanced) =>
              IF is_in_expanded_conditional_content(conditional_content_stack)
              THEN elements' = elements
                   /\ conditional_content_stack' = conditional_content_stack
              ELSE WrittenAsItsContent(id)]_vars

====
